---- MODULE Spec2Model ----
(***************************************************************************)
(* A model of parts of the NVC VHDL simulator: the hash containers of      *)
(* src/hash.c, the type predicates and equalities of src/type.c, the       *)
(* layout cache of jit-layout.c and the VCD writer of src/rt/vcd.c.        *)
(*                                                                         *)
(* Each subsystem has its own variables, initial condition, next-state     *)
(* relation and specification; the variables of the other subsystems stay  *)
(* at their initial values.                                                *)
(***************************************************************************)
EXTENDS Integers, Sequences, FiniteSets, TLC

VARIABLES
  mix,        \* value of the hash mixer (mix_bits_64 / mix_bits_32 / SplitMix64) per key
  tbl,        \* which open-addressing table this run exercises
  h,          \* struct _hash   (pointer -> pointer)
  sh,         \* struct _shash  (string -> pointer)
  ih,         \* struct _ihash  (u64 -> pointer)
  hs,         \* struct _hset   (set of pointers)
  gh,         \* struct _ghash  (generic table)
  ht_hung,    \* a probe loop of the live table ran without finding a stop slot
  ht_puts,    \* number of put/insert calls made on the live table
  ht_ref,     \* the calls made on the live table so far, as a plain map
  ch_slots,   \* struct _chash: slots[]
  ch_nodes,   \* every chash_node_t linked so far, by allocation order
  ch_pc,      \* per thread: position inside chash_put
  ch_loc,     \* per thread: locals of chash_put (key, value, slot, p, it)
  ch_calls,   \* per thread: number of chash_put calls started
  ch_ret,     \* per thread: what the last chash_put returned
  ch_keys,    \* keys passed to some chash_put call so far
  ch_casfail, \* some chash_put lost its CAS and walked the chain again
  ch_get,     \* the thread that reads: position and locals of its chash_get
  vcd_out,    \* the lines written to vcd_file, in order (rewind included)
  last_time,  \* static last_time of vcd_event_cb
  vcd_fmt,    \* per signal of vcd_top: vcd_set_fmt_fn can format its type
  vcd_key,    \* per signal: its vcd_key attribute, -1 when it has none
  vcd_now,    \* simulation time of the latest callback of the current run
  vcd_cbs,    \* number of vcd_event_cb invocations so far
  vcd_runs,   \* number of vcd_restart calls so far
  types,      \* the type objects made by type_new; a type_t is an index, NULL is 0
  frozen,     \* the arena of the types is frozen
  layouts,    \* the jit_layout_t objects allocated so far; a pointer is an index
  layout_cache, \* static cache of layout_of
  signal_cache, \* static cache of signal_layout_of
  lo_last,    \* the latest call: function, type and the pointer returned
  lo_first,   \* per function and type: pointer and contents first returned
  lo_calls,   \* number of calls of layout_of and signal_layout_of so far
  hints,      \* static hint_t *hints: the queued hints, head first
  n_errors,   \* static unsigned n_errors
  unit_test,  \* value of the option "unit-test"
  diag_log,   \* what the diagnostic calls did: counts, and the latest call
  dbg,        \* debug.c: the thread's lru_cache, the frames, and the capture in progress
  cxxrtl,     \* cxxrtl_server_t: socket, shutdown flag, tx buffer, the latest message
  pv,   \* test_value.c: the type and string of a parse_value call and its result
  ws,   \* web_socket_t: the server's end of one WebSocket connection
  ws_client,   \* the frames the client has sent, the bytes not yet received, the reads that delivered bytes
  srv,   \* start_server: the debug_server_t, the position in the function, the outcome of its assertions
  wtx,   \* the transmit side of one web_socket_t: tx_buf with its pointers, and what send() took
  fc    \* util.c: one filter_color call, its string, the colour settings and what it wrote

hash_vars  == <<mix, tbl, h, sh, ih, hs, gh, ht_hung, ht_puts, ht_ref>>
chash_vars == <<ch_slots, ch_nodes, ch_pc, ch_loc, ch_calls, ch_ret, ch_keys, ch_casfail>>

vcd_vars   == <<vcd_out, last_time, vcd_fmt, vcd_key, vcd_now, vcd_cbs, vcd_runs>>

type_vars  == <<types, frozen>>
layout_vars == <<layouts, layout_cache, signal_cache, lo_last, lo_first, lo_calls>>
diag_vars  == <<hints, n_errors, unit_test, diag_log>>
reader_vars == <<ch_get>>
debug_vars == <<dbg>>
server_vars == <<cxxrtl>>
color_vars == <<fc>>
tx_vars == <<wtx>>
loop_vars == <<srv>>
ws_vars == <<ws, ws_client>>
value_vars == <<pv>>

vars == <<hash_vars, chash_vars, vcd_vars, type_vars, layout_vars, diag_vars, reader_vars, debug_vars, server_vars, value_vars, ws_vars, loop_vars, tx_vars, color_vars>>

\* what the actions of one subsystem leave alone
not_hash_vars  == <<chash_vars, vcd_vars, type_vars, layout_vars, diag_vars, reader_vars, debug_vars, server_vars, value_vars, ws_vars, loop_vars, tx_vars, color_vars>>
not_chash_vars == <<hash_vars, vcd_vars, type_vars, layout_vars, diag_vars, reader_vars, debug_vars, server_vars, value_vars, ws_vars, loop_vars, tx_vars, color_vars>>
not_vcd_vars   == <<hash_vars, chash_vars, type_vars, layout_vars, diag_vars, reader_vars, debug_vars, server_vars, value_vars, ws_vars, loop_vars, tx_vars, color_vars>>
not_type_vars  == <<hash_vars, chash_vars, vcd_vars, layout_vars, diag_vars, reader_vars, debug_vars, server_vars, value_vars, ws_vars, loop_vars, tx_vars, color_vars>>
not_layout_vars == <<hash_vars, chash_vars, vcd_vars, type_vars, diag_vars, reader_vars, debug_vars, server_vars, value_vars, ws_vars, loop_vars, tx_vars, color_vars>>
not_diag_vars  == <<hash_vars, chash_vars, vcd_vars, type_vars, layout_vars, reader_vars, debug_vars, server_vars, value_vars, ws_vars, loop_vars, tx_vars, color_vars>>
not_reader_vars == <<hash_vars, chash_vars, vcd_vars, type_vars, layout_vars, diag_vars, debug_vars, server_vars, value_vars, ws_vars, loop_vars, tx_vars, color_vars>>
not_debug_vars == <<hash_vars, chash_vars, vcd_vars, type_vars, layout_vars, diag_vars, reader_vars, server_vars, value_vars, ws_vars, loop_vars, tx_vars, color_vars>>
not_server_vars == <<hash_vars, chash_vars, vcd_vars, type_vars, layout_vars, diag_vars, reader_vars, debug_vars, value_vars, ws_vars, loop_vars, tx_vars, color_vars>>
not_color_vars == <<hash_vars, chash_vars, vcd_vars, type_vars, layout_vars, diag_vars, reader_vars, debug_vars, server_vars, value_vars, ws_vars, loop_vars, tx_vars>>
not_tx_vars == <<hash_vars, chash_vars, vcd_vars, type_vars, layout_vars, diag_vars, reader_vars, debug_vars, server_vars, value_vars, ws_vars, loop_vars, color_vars>>
not_loop_vars == <<hash_vars, chash_vars, vcd_vars, type_vars, layout_vars, diag_vars, reader_vars, debug_vars, server_vars, value_vars, ws_vars, tx_vars, color_vars>>
not_ws_vars == <<hash_vars, chash_vars, vcd_vars, type_vars, layout_vars, diag_vars, reader_vars, debug_vars, server_vars, value_vars, loop_vars, tx_vars, color_vars>>
not_value_vars == <<hash_vars, chash_vars, vcd_vars, type_vars, layout_vars, diag_vars, reader_vars, debug_vars, server_vars, ws_vars, loop_vars, tx_vars, color_vars>>

NULL == 0

\* ------------------------------------------------------------------------
\* Bounds of the model
MaxKey     == 3      \* keys are 1..MaxKey
MaxVal     == 2      \* non-NULL values are 1..MaxVal
MixBits    == 2      \* the mixed hash of a key is drawn from 0..2^MixBits-1
MaxNewSize == 2      \* tables are created with hash_new(1..MaxNewSize)
MaxPuts    == 4      \* put/insert calls per run of an open-addressing table
ChashBits  == 1      \* the concurrent map has 2^ChashBits slots
MaxThreads == 2      \* writer threads of the concurrent map
MaxGets    == 1      \* chash_get calls of the reading thread
MaxCalls   == 2      \* chash_put calls per thread

TimeBits   == 2      \* simulation time is kept in TimeBits bits instead of 64
MaxSig     == 2      \* signal declarations of vcd_top
MaxCbs     == 4      \* watch callbacks delivered per run of the model
MaxRuns    == 2      \* vcd_restart calls per run of the model
MaxTypes   == 3      \* type objects
MaxDims    == 1      \* ranges added to one type
MaxParams  == 1      \* parameter types added to one subprogram type
MaxFields  == 2      \* fields added to one record type
MaxLayoutCalls == 2  \* calls of layout_of and signal_layout_of
MaxHints   == 2      \* hints queued at one time
MaxHintSeq == 3      \* hints queued in one run
MaxDiagCalls == 3    \* calls of error_at, warn_at and note_at in one run
DI_LRU_SIZE == 3     \* entries of the frame cache, 256 in debug.c
MaxPc      == 4      \* program counters are 1..MaxPc, 0 is no ip
MainPc     == 1      \* the pc that lies in main
MaxUnwind  == 5      \* frames of one stack, the skipped one included
MaxCaptures == 2     \* calls of debug_capture that start a backtrace
MaxNested  == 1      \* calls of debug_capture made during a capture
MaxLookups == 1      \* calls of debug_symbol_name
MaxFd      == 4      \* accept returns a descriptor in 3..MaxFd
MaxTx      == 2      \* messages waiting in the tx buffer
MaxConns   == 2      \* connections accepted by one server

Keys    == 1..MaxKey
Vals    == 1..MaxVal
Threads == 1..MaxThreads

RECURSIVE Pow2(_)
Pow2(n) == IF n = 0 THEN 1 ELSE 2 * Pow2(n - 1)

MixRange == 0..(Pow2(MixBits) - 1)

IsPow2(n) == \E e \in 0..16 : n = Pow2(e)

\* util.c next_power_of_2: smear the bits of n-1 to the right and add one,
\* which is the least power of two >= n for 1 <= n <= 2^30
RECURSIVE next_power_of_2_from(_, _)
next_power_of_2_from(n, p) == IF p >= n THEN p ELSE next_power_of_2_from(n, 2 * p)
next_power_of_2(n) == next_power_of_2_from(n, 1)

\* ------------------------------------------------------------------------
\* Hash table of pointers to pointers (struct _hash)

EmptyTable(size) ==
  [size |-> size, members |-> 0,
   keys |-> [i \in 0..(size - 1) |-> NULL],
   values |-> [i \in 0..(size - 1) |-> NULL]]

hash_new(size) == EmptyTable(next_power_of_2(size))

\* mix_bits_64((uintptr_t)key) & (size - 1)
hash_slot(size, key) == mix[key] % size

\* A probe loop that steps by two slots each time
RECURSIVE hash_probe_step_two(_, _, _, _)
hash_probe_step_two(t, key, slot, i) ==
  IF i > 2 * t.size + 1 THEN -1
  ELSE IF t.keys[slot] = key \/ t.keys[slot] = NULL THEN slot
  ELSE hash_probe_step_two(t, key, (slot + 2) % t.size, i + 1)

\* The loop "for (int i = 1; ; slot = (slot + i++) & (size - 1))" of hash_put,
\* hash_get and hash_delete: the slot where it stops (the key, or an empty
\* slot), or -1 when it does not stop within 2*size probes.
RECURSIVE hash_probe(_, _, _, _)
hash_probe(t, key, slot, i) ==
  IF i > 2 * t.size + 1 THEN -1
  ELSE IF t.keys[slot] = key \/ t.keys[slot] = NULL THEN slot
  ELSE hash_probe(t, key, (slot + i) % t.size, i + 1)

RECURSIVE hash_put(_, _, _)
RECURSIVE hash_reinsert(_, _, _)

\* hash_put lines 80-83: reinsert every old entry with a non-NULL key
hash_reinsert(new, old, i) ==
  IF i >= old.size THEN new
  ELSE IF old.keys[i] # NULL
       THEN hash_reinsert(hash_put(new, old.keys[i], old.values[i]).t, old, i + 1)
       ELSE hash_reinsert(new, old, i + 1)

\* The rebuild loop started at slot 1 instead of slot 0
hash_rehash_skip_first(t) == hash_reinsert(EmptyTable(2 * t.size), t, 1)

\* hash_put lines 64-86
hash_rehash(t) == hash_reinsert(EmptyTable(2 * t.size), t, 0)

\* hash_put that leaves the value of a key it finds as it was
hash_put_keep(t, key, value) ==
  LET t1 == IF t.members >= t.size \div 2 THEN hash_rehash(t) ELSE t
      s  == hash_probe(t1, key, hash_slot(t1.size, key), 1)
  IN  IF s = -1 THEN [t |-> t1, ret |-> FALSE, hung |-> TRUE]
      ELSE IF t1.keys[s] = key
      THEN [t |-> t1, ret |-> TRUE, hung |-> FALSE]
      ELSE [t |-> [t1 EXCEPT !.values[s] = value, !.keys[s] = key,
                             !.members = @ + 1],
            ret |-> FALSE, hung |-> FALSE]

hash_put(t, key, value) ==
  LET t1 == IF t.members >= t.size \div 2 THEN hash_rehash(t) ELSE t
      s  == hash_probe(t1, key, hash_slot(t1.size, key), 1)
  IN  IF s = -1 THEN [t |-> t1, ret |-> FALSE, hung |-> TRUE]
      ELSE IF t1.keys[s] = key
      THEN [t |-> [t1 EXCEPT !.values[s] = value], ret |-> TRUE, hung |-> FALSE]
      ELSE [t |-> [t1 EXCEPT !.values[s] = value, !.keys[s] = key,
                             !.members = @ + 1],
            ret |-> FALSE, hung |-> FALSE]

hash_delete(t, key) ==
  LET s == hash_probe(t, key, hash_slot(t.size, key), 1)
  IN  IF s = -1 THEN [t |-> t, hung |-> TRUE]
      ELSE IF t.keys[s] = key
      THEN [t |-> [t EXCEPT !.values[s] = NULL], hung |-> FALSE]
      ELSE [t |-> t, hung |-> FALSE]

hash_get(t, key) ==
  LET s == hash_probe(t, key, hash_slot(t.size, key), 1)
  IN  IF s = -1 THEN NULL ELSE IF t.keys[s] = key THEN t.values[s] ELSE NULL

hash_members(t) == t.members

\* hash_iter called from HASH_BEGIN until it returns false: the pairs it
\* yields, in slot order (slots with a key and a non-NULL value)
RECURSIVE hash_iter(_, _)
hash_iter(t, now) ==
  IF now >= t.size THEN <<>>
  ELSE IF t.keys[now] # NULL /\ t.values[now] # NULL
       THEN <<[key |-> t.keys[now], value |-> t.values[now]]>> \o hash_iter(t, now + 1)
       ELSE hash_iter(t, now + 1)

\* ------------------------------------------------------------------------
\* Hash table of strings to pointers (struct _shash); a string is named by
\* its content, so strcmp(a, b) == 0 is a = b and xstrdup keeps the name.

\* DJB2 of the string, then mix_bits_32(hash) & (size - 1)
shash_slot(t, key) == mix[key] % t.size

shash_new(size) == EmptyTable(next_power_of_2(size))

\* The loop "for (; ; slot = (slot + 1) & (size - 1))" of the string table
RECURSIVE shash_probe(_, _, _, _)
shash_probe(t, key, slot, n) ==
  IF n > 2 * t.size + 1 THEN -1
  ELSE IF t.keys[slot] = NULL \/ t.keys[slot] = key THEN slot
  ELSE shash_probe(t, key, (slot + 1) % t.size, n + 1)

shash_put_copy(t, key, value) ==
  LET s == shash_probe(t, key, shash_slot(t, key), 0)
  IN  IF s = -1 THEN [t |-> t, hung |-> TRUE]
      ELSE IF t.keys[s] = NULL
      THEN [t |-> [t EXCEPT !.values[s] = value, !.keys[s] = key,
                            !.members = @ + 1], hung |-> FALSE]
      ELSE [t |-> [t EXCEPT !.values[s] = value], hung |-> FALSE]

RECURSIVE shash_reinsert(_, _, _)
shash_reinsert(new, old, i) ==
  IF i >= old.size THEN new
  ELSE IF old.keys[i] # NULL
       THEN shash_reinsert(shash_put_copy(new, old.keys[i], old.values[i]).t, old, i + 1)
       ELSE shash_reinsert(new, old, i + 1)

shash_rehash(t) == shash_reinsert(EmptyTable(2 * t.size), t, 0)

shash_put(t, key, value) ==
  shash_put_copy(IF t.members >= t.size \div 2 THEN shash_rehash(t) ELSE t,
                 key, value)

shash_get(t, key) ==
  LET s == shash_probe(t, key, shash_slot(t, key), 0)
  IN  IF s = -1 THEN NULL ELSE IF t.keys[s] = NULL THEN NULL ELSE t.values[s]

shash_delete(t, key) ==
  LET s == shash_probe(t, key, shash_slot(t, key), 0)
  IN  IF s = -1 THEN [t |-> t, hung |-> TRUE]
      ELSE IF t.keys[s] = NULL THEN [t |-> t, hung |-> FALSE]
      ELSE [t |-> [t EXCEPT !.values[s] = NULL], hung |-> FALSE]

\* ------------------------------------------------------------------------
\* Hash of unsigned integers to pointers (struct _ihash).  The u64 key k of
\* the program is key k+1 of the model, so that key 0 has a mixed hash too.

IKeys == 0..(MaxKey - 1)

\* SplitMix64 of the key, & (size - 1)
ihash_slot(t, key) == mix[key + 1] % t.size

EmptyITable(size, ck, cv) ==
  [size |-> size, members |-> 0,
   keys |-> [i \in 0..(size - 1) |-> 0],
   values |-> [i \in 0..(size - 1) |-> NULL],
   mask |-> [i \in 0..(size - 1) |-> FALSE],
   cachekey |-> ck, cacheval |-> cv]

\* xmalloc leaves cachekey and cacheval unset: ck and cv are what they hold
ihash_new(size, ck, cv) == EmptyITable(next_power_of_2(size), ck, cv)

RECURSIVE ihash_probe(_, _, _, _)
ihash_probe(t, key, slot, n) ==
  IF n > 2 * t.size + 1 THEN -1
  ELSE IF ~t.mask[slot] \/ t.keys[slot] = key THEN slot
  ELSE ihash_probe(t, key, (slot + 1) % t.size, n + 1)

RECURSIVE ihash_put(_, _, _)
RECURSIVE ihash_reinsert(_, _, _)

ihash_reinsert(new, old, i) ==
  IF i >= old.size THEN new
  ELSE IF old.mask[i]
       THEN ihash_reinsert(ihash_put(new, old.keys[i], old.values[i]).t, old, i + 1)
       ELSE ihash_reinsert(new, old, i + 1)

ihash_rehash(t) ==
  ihash_reinsert(EmptyITable(2 * t.size, t.cachekey, t.cacheval), t, 0)

ihash_put(t, key, value) ==
  LET t1 == IF t.members >= t.size \div 2 THEN ihash_rehash(t) ELSE t
      t2 == [t1 EXCEPT !.cachekey = key, !.cacheval = value]
      s  == ihash_probe(t2, key, ihash_slot(t2, key), 0)
  IN  IF s = -1 THEN [t |-> t2, hung |-> TRUE]
      ELSE IF ~t2.mask[s]
      THEN [t |-> [t2 EXCEPT !.values[s] = value, !.keys[s] = key,
                             !.mask[s] = TRUE, !.members = @ + 1],
            hung |-> FALSE]
      ELSE [t |-> [t2 EXCEPT !.values[s] = value], hung |-> FALSE]

\* ihash_get that trusts the lookup cache of a table without members
ihash_get_cache_unguarded(t, key) ==
  IF key = t.cachekey
  THEN [t |-> t, ret |-> t.cacheval]
  ELSE LET s == ihash_probe(t, key, ihash_slot(t, key), 0)
           r == IF s = -1 THEN NULL
                ELSE IF ~t.mask[s] THEN NULL ELSE t.values[s]
       IN  [t |-> [t EXCEPT !.cachekey = key, !.cacheval = r], ret |-> r]

\* ihash_get also writes the lookup cache: the table after the call and the result
ihash_get(t, key) ==
  IF t.members > 0 /\ key = t.cachekey
  THEN [t |-> t, ret |-> t.cacheval]
  ELSE LET s == ihash_probe(t, key, ihash_slot(t, key), 0)
           r == IF s = -1 THEN NULL
                ELSE IF ~t.mask[s] THEN NULL ELSE t.values[s]
       IN  [t |-> [t EXCEPT !.cachekey = key, !.cacheval = r], ret |-> r]

\* ------------------------------------------------------------------------
\* Set of pointers (struct _hset)

EmptySet(size) ==
  [size |-> size, members |-> 0, keys |-> [i \in 0..(size - 1) |-> NULL]]

hset_new(size) == EmptySet(next_power_of_2(size))

RECURSIVE hset_probe(_, _, _, _)
hset_probe(t, key, slot, n) ==
  IF n > 2 * t.size + 1 THEN -1
  ELSE IF t.keys[slot] = key \/ t.keys[slot] = NULL THEN slot
  ELSE hset_probe(t, key, (slot + 1) % t.size, n + 1)

RECURSIVE hset_insert(_, _)
RECURSIVE hset_reinsert(_, _, _)

hset_reinsert(new, old, i) ==
  IF i >= old.size THEN new
  ELSE IF old.keys[i] # NULL
       THEN hset_reinsert(hset_insert(new, old.keys[i]).t, old, i + 1)
       ELSE hset_reinsert(new, old, i + 1)

hset_rehash(t) == hset_reinsert(EmptySet(2 * t.size), t, 0)

hset_insert(t, key) ==
  LET t1 == IF t.members >= t.size \div 2 THEN hset_rehash(t) ELSE t
      s  == hset_probe(t1, key, hash_slot(t1.size, key), 0)
  IN  IF s = -1 THEN [t |-> t1, hung |-> TRUE]
      ELSE IF t1.keys[s] = key THEN [t |-> t1, hung |-> FALSE]
      ELSE [t |-> [t1 EXCEPT !.keys[s] = key, !.members = @ + 1], hung |-> FALSE]

hset_contains(t, key) ==
  LET s == hset_probe(t, key, hash_slot(t.size, key), 0)
  IN  s # -1 /\ t.keys[s] = key

\* ------------------------------------------------------------------------
\* Generic hash table (struct _ghash).  A key is a pointer to an object; the
\* table's hash_fn and cmp_fn look at the object: keys 1 and 2 point to equal
\* objects, key 3 to another one, and so on in pairs.

gcontent(key) == (key + 1) \div 2

cmp_fn(a, b) == gcontent(a) = gcontent(b)

\* mix_bits_64((*h->hash_fn)(key)) & (size - 1)
ghash_slot(t, key) == mix[gcontent(key)] % t.size

ghash_new(size) == EmptyTable(next_power_of_2(size))

\* ghash_put lines 645-656: a slot holding an equal key has its value
\* replaced and the loop goes on to the next slot; only an empty slot ends it
RECURSIVE ghash_put_loop(_, _, _, _, _)
ghash_put_loop(t, key, value, slot, i) ==
  IF i > 2 * t.size + 1 THEN [t |-> t, hung |-> TRUE]
  ELSE IF t.keys[slot] = NULL
  THEN [t |-> [t EXCEPT !.values[slot] = value, !.keys[slot] = key,
                        !.members = @ + 1], hung |-> FALSE]
  ELSE IF t.keys[slot] = key \/ cmp_fn(t.keys[slot], key)
  THEN ghash_put_loop([t EXCEPT !.values[slot] = value], key, value,
                      (slot + i) % t.size, i + 1)
  ELSE ghash_put_loop(t, key, value, (slot + i) % t.size, i + 1)

RECURSIVE ghash_put(_, _, _)
RECURSIVE ghash_reinsert(_, _, _)

ghash_reinsert(new, old, i) ==
  IF i >= old.size THEN new
  ELSE IF old.keys[i] # NULL
       THEN ghash_reinsert(ghash_put(new, old.keys[i], old.values[i]).t, old, i + 1)
       ELSE ghash_reinsert(new, old, i + 1)

ghash_rehash(t) == ghash_reinsert(EmptyTable(2 * t.size), t, 0)

ghash_put(t, key, value) ==
  LET t1 == IF t.members >= t.size \div 2 THEN ghash_rehash(t) ELSE t
  IN  ghash_put_loop(t1, key, value, ghash_slot(t1, key), 1)

RECURSIVE ghash_probe(_, _, _, _)
ghash_probe(t, key, slot, i) ==
  IF i > 2 * t.size + 1 THEN -1
  ELSE IF t.keys[slot] = NULL THEN slot
  ELSE IF t.keys[slot] = key \/ cmp_fn(t.keys[slot], key) THEN slot
  ELSE ghash_probe(t, key, (slot + i) % t.size, i + 1)

ghash_get(t, key) ==
  LET s == ghash_probe(t, key, ghash_slot(t, key), 1)
  IN  IF s = -1 THEN NULL ELSE IF t.keys[s] = NULL THEN NULL ELSE t.values[s]

\* ghash_delete calls cmp_fn before it tests the slot for NULL.  On an empty
\* slot cmp_fn(NULL, key) is a read through a null pointer: cmpnull is the
\* answer it gives when it returns.  Either answer leaves the table as it
\* is, since an empty slot already holds the value NULL.
ghash_delete(t, key, cmpnull) ==
  LET s == ghash_probe(t, key, ghash_slot(t, key), 1)
  IN  IF s = -1 THEN [t |-> t, hung |-> TRUE]
      ELSE IF t.keys[s] = NULL
      THEN [t |-> IF cmpnull THEN [t EXCEPT !.values[s] = NULL] ELSE t,
            hung |-> FALSE]
      ELSE [t |-> [t EXCEPT !.values[s] = NULL], hung |-> FALSE]


\* ------------------------------------------------------------------------
\* The open-addressing tables as a state machine: one table kind per run

\* What the calls made so far amount to on a plain map: map is the value of
\* the latest put of each key (NULL after a delete), keys are the keys put,
\* ret is what the latest put returned, had tells that its key had been put
\* before, live that the map held a value for it at that call, and dels that
\* some delete call was made.
NoRef ==
  [map |-> [k \in 0..MaxKey |-> NULL], keys |-> {}, ret |-> FALSE,
   had |-> FALSE, live |-> FALSE, dels |-> FALSE]

ref_put(r, key, value, ret) ==
  [r EXCEPT !.map[key] = value, !.keys = @ \cup {key}, !.ret = ret,
            !.had = key \in r.keys, !.live = r.map[key] # NULL]

ref_delete(r, key) == [r EXCEPT !.map[key] = NULL, !.dels = TRUE]

TableKinds == {"hash", "shash", "ihash", "hset", "ghash"}

HashPut(key, value) ==
  /\ tbl = "hash" /\ ~ht_hung /\ ht_puts < MaxPuts
  /\ LET r == hash_put(h, key, value)
     IN  h' = r.t /\ ht_hung' = r.hung
         /\ ht_ref' = ref_put(ht_ref, key, value, r.ret)
  /\ ht_puts' = ht_puts + 1
  /\ UNCHANGED <<mix, tbl, sh, ih, hs, gh>>
  /\ UNCHANGED not_hash_vars

HashDelete(key) ==
  /\ tbl = "hash" /\ ~ht_hung
  /\ LET r == hash_delete(h, key)
     IN  h' = r.t /\ ht_hung' = r.hung
  /\ ht_ref' = ref_delete(ht_ref, key)
  /\ UNCHANGED <<mix, tbl, sh, ih, hs, gh, ht_puts>>
  /\ UNCHANGED not_hash_vars

ShashPut(key, value) ==
  /\ tbl = "shash" /\ ~ht_hung /\ ht_puts < MaxPuts
  /\ LET r == shash_put(sh, key, value)
     IN  sh' = r.t /\ ht_hung' = r.hung
  /\ ht_puts' = ht_puts + 1
  /\ ht_ref' = ref_put(ht_ref, key, value, FALSE)
  /\ UNCHANGED <<mix, tbl, h, ih, hs, gh>>
  /\ UNCHANGED not_hash_vars

ShashDelete(key) ==
  /\ tbl = "shash" /\ ~ht_hung
  /\ LET r == shash_delete(sh, key)
     IN  sh' = r.t /\ ht_hung' = r.hung
  /\ ht_ref' = ref_delete(ht_ref, key)
  /\ UNCHANGED <<mix, tbl, h, ih, hs, gh, ht_puts>>
  /\ UNCHANGED not_hash_vars

IhashPut(key, value) ==
  /\ tbl = "ihash" /\ ~ht_hung /\ ht_puts < MaxPuts
  /\ LET r == ihash_put(ih, key, value)
     IN  ih' = r.t /\ ht_hung' = r.hung
  /\ ht_puts' = ht_puts + 1
  /\ ht_ref' = ref_put(ht_ref, key, value, FALSE)
  /\ UNCHANGED <<mix, tbl, h, sh, hs, gh>>
  /\ UNCHANGED not_hash_vars

IhashGet(key) ==
  /\ tbl = "ihash" /\ ~ht_hung
  /\ ih' = ihash_get(ih, key).t
  /\ UNCHANGED <<mix, tbl, h, sh, hs, gh, ht_hung, ht_puts, ht_ref>>
  /\ UNCHANGED not_hash_vars

HsetInsert(key) ==
  /\ tbl = "hset" /\ ~ht_hung /\ ht_puts < MaxPuts
  /\ LET r == hset_insert(hs, key)
     IN  hs' = r.t /\ ht_hung' = r.hung
  /\ ht_puts' = ht_puts + 1
  /\ ht_ref' = ref_put(ht_ref, key, 1, FALSE)
  /\ UNCHANGED <<mix, tbl, h, sh, ih, gh>>
  /\ UNCHANGED not_hash_vars

GhashPut(key, value) ==
  /\ tbl = "ghash" /\ ~ht_hung /\ ht_puts < MaxPuts
  /\ LET r == ghash_put(gh, key, value)
     IN  gh' = r.t /\ ht_hung' = r.hung
  /\ ht_puts' = ht_puts + 1
  /\ ht_ref' = ref_put(ht_ref, key, value, FALSE)
  /\ UNCHANGED <<mix, tbl, h, sh, ih, hs>>
  /\ UNCHANGED not_hash_vars

GhashDelete(key, cmpnull) ==
  /\ tbl = "ghash" /\ ~ht_hung
  /\ LET r == ghash_delete(gh, key, cmpnull)
     IN  gh' = r.t /\ ht_hung' = r.hung
  /\ ht_ref' = ref_delete(ht_ref, key)
  /\ UNCHANGED <<mix, tbl, h, sh, ih, hs, ht_puts>>
  /\ UNCHANGED not_hash_vars


\* ------------------------------------------------------------------------
\* Hash table that supports concurrent updates (struct _chash).  Every
\* load_acquire, store_release and atomic_cas of chash_put is one step.

ChashSize == Pow2(ChashBits)

NoLocals == [key |-> NULL, value |-> NULL, slot |-> 0, p |-> 0, it |-> NULL]

\* the reading thread outside chash_get
NoGet == [pc |-> "idle", key |-> NULL, p |-> 0, it |-> NULL, steps |-> 0,
          calls |-> 0, ret |-> NULL]

ChashIdle ==
  /\ ch_slots = [i \in 0..(ChashSize - 1) |-> NULL]
  /\ ch_nodes = <<>>
  /\ ch_pc = [t \in Threads |-> "idle"]
  /\ ch_loc = [t \in Threads |-> NoLocals]
  /\ ch_calls = [t \in Threads |-> 0]
  /\ ch_ret = [t \in Threads |-> FALSE]
  /\ ch_keys = {}
  /\ ch_casfail = FALSE
  /\ ch_get = NoGet

\* *p, where p is &h->slots[slot] (p = 0) or &node->chain (p = node)
ChashDeref(slot, p) == IF p = 0 THEN ch_slots[slot] ELSE ch_nodes[p].chain

\* chash_put line 532 and 535: the call starts at the head of the key's slot
chash_put_begin(t, key, value) ==
  /\ ch_pc[t] = "idle" /\ ch_calls[t] < MaxCalls
  /\ ch_loc' = [ch_loc EXCEPT ![t] = [key |-> key, value |-> value,
                                      slot |-> hash_slot(ChashSize, key),
                                      p |-> 0, it |-> NULL]]
  /\ ch_pc' = [ch_pc EXCEPT ![t] = "walk"]
  /\ ch_calls' = [ch_calls EXCEPT ![t] = @ + 1]
  /\ ch_keys' = ch_keys \cup {key}
  /\ UNCHANGED <<ch_slots, ch_nodes, ch_ret, ch_casfail>>
  /\ UNCHANGED not_chash_vars

\* chash_put lines 536-541: one load_acquire(p) and the test of it->key
chash_put_walk(t) ==
  /\ ch_pc[t] = "walk"
  /\ LET l  == ch_loc[t]
         it == ChashDeref(l.slot, l.p)
     IN  IF it = NULL
         THEN /\ ch_pc' = [ch_pc EXCEPT ![t] = "cas"]
              /\ ch_loc' = [ch_loc EXCEPT ![t].it = NULL]
         ELSE IF ch_nodes[it].key = l.key
         THEN /\ ch_pc' = [ch_pc EXCEPT ![t] = "store"]
              /\ ch_loc' = [ch_loc EXCEPT ![t].it = it]
         ELSE /\ ch_pc' = ch_pc
              /\ ch_loc' = [ch_loc EXCEPT ![t].it = it, ![t].p = it]
  /\ UNCHANGED <<ch_slots, ch_nodes, ch_calls, ch_ret, ch_keys, ch_casfail>>
  /\ UNCHANGED not_chash_vars

\* chash_put lines 538-539: store_release(&(it->value), value); return true
chash_put_store(t) ==
  /\ ch_pc[t] = "store"
  /\ ch_nodes' = [ch_nodes EXCEPT ![ch_loc[t].it].value = ch_loc[t].value]
  /\ ch_pc' = [ch_pc EXCEPT ![t] = "idle"]
  /\ ch_ret' = [ch_ret EXCEPT ![t] = TRUE]
  /\ UNCHANGED <<ch_slots, ch_loc, ch_calls, ch_keys, ch_casfail>>
  /\ UNCHANGED not_chash_vars

\* A store in place of the compare-and-swap: the new node is linked whatever
\* *p holds by now
chash_put_cas_blind(t) ==
  /\ ch_pc[t] = "cas"
  /\ LET l   == ch_loc[t]
         new == Len(ch_nodes) + 1
     IN  /\ ch_nodes' =
              IF l.p = 0
              THEN Append(ch_nodes, [chain |-> NULL, key |-> l.key, value |-> l.value])
              ELSE Append([ch_nodes EXCEPT ![l.p].chain = new],
                          [chain |-> NULL, key |-> l.key, value |-> l.value])
         /\ ch_slots' = IF l.p = 0 THEN [ch_slots EXCEPT ![l.slot] = new] ELSE ch_slots
         /\ ch_pc' = [ch_pc EXCEPT ![t] = "idle"]
         /\ ch_ret' = [ch_ret EXCEPT ![t] = FALSE]
         /\ UNCHANGED <<ch_loc, ch_casfail>>
  /\ UNCHANGED <<ch_calls, ch_keys>>
  /\ UNCHANGED not_chash_vars

\* A compare-and-swap that may fail although *p is still NULL
chash_put_cas_weak(t) ==
  /\ ch_pc[t] = "cas"
  /\ LET l   == ch_loc[t]
         new == Len(ch_nodes) + 1
     IN  \/ /\ ChashDeref(l.slot, l.p) = NULL
            /\ ch_nodes' =
                 IF l.p = 0
                 THEN Append(ch_nodes, [chain |-> NULL, key |-> l.key, value |-> l.value])
                 ELSE Append([ch_nodes EXCEPT ![l.p].chain = new],
                             [chain |-> NULL, key |-> l.key, value |-> l.value])
            /\ ch_slots' = IF l.p = 0 THEN [ch_slots EXCEPT ![l.slot] = new] ELSE ch_slots
            /\ ch_pc' = [ch_pc EXCEPT ![t] = "idle"]
            /\ ch_ret' = [ch_ret EXCEPT ![t] = FALSE]
            /\ UNCHANGED <<ch_loc, ch_casfail>>
         \/ /\ ch_pc' = [ch_pc EXCEPT ![t] = "walk"]
            /\ ch_loc' = [ch_loc EXCEPT ![t].p = 0, ![t].it = NULL]
            /\ ch_casfail' = TRUE
            /\ UNCHANGED <<ch_slots, ch_nodes, ch_ret>>
  /\ UNCHANGED <<ch_calls, ch_keys>>
  /\ UNCHANGED not_chash_vars

\* A compare-and-swap that, when it fails, steps to the node linked at *p and
\* tries again there without a look at that node's key
chash_put_cas_append(t) ==
  /\ ch_pc[t] = "cas"
  /\ LET l   == ch_loc[t]
         new == Len(ch_nodes) + 1
     IN  IF ChashDeref(l.slot, l.p) = NULL
         THEN /\ ch_nodes' =
                   IF l.p = 0
                   THEN Append(ch_nodes, [chain |-> NULL, key |-> l.key, value |-> l.value])
                   ELSE Append([ch_nodes EXCEPT ![l.p].chain = new],
                               [chain |-> NULL, key |-> l.key, value |-> l.value])
              /\ ch_slots' = IF l.p = 0 THEN [ch_slots EXCEPT ![l.slot] = new] ELSE ch_slots
              /\ ch_pc' = [ch_pc EXCEPT ![t] = "idle"]
              /\ ch_ret' = [ch_ret EXCEPT ![t] = FALSE]
              /\ UNCHANGED <<ch_loc, ch_casfail>>
         ELSE /\ ch_pc' = ch_pc
              /\ ch_loc' = [ch_loc EXCEPT ![t].p = ChashDeref(l.slot, l.p)]
              /\ ch_casfail' = TRUE
              /\ UNCHANGED <<ch_slots, ch_nodes, ch_ret>>
  /\ UNCHANGED <<ch_calls, ch_keys>>
  /\ UNCHANGED not_chash_vars

\* A writer that links its node in front of the chain: the node's chain field
\* takes the old head and the slot takes the node
chash_put_cas_head(t) ==
  /\ ch_pc[t] = "cas"
  /\ LET l   == ch_loc[t]
         new == Len(ch_nodes) + 1
     IN  IF ChashDeref(l.slot, l.p) = NULL
         THEN /\ ch_nodes' = Append(ch_nodes, [chain |-> ch_slots[l.slot],
                                               key |-> l.key, value |-> l.value])
              /\ ch_slots' = [ch_slots EXCEPT ![l.slot] = new]
              /\ ch_pc' = [ch_pc EXCEPT ![t] = "idle"]
              /\ ch_ret' = [ch_ret EXCEPT ![t] = FALSE]
              /\ UNCHANGED <<ch_loc, ch_casfail>>
         ELSE /\ ch_pc' = [ch_pc EXCEPT ![t] = "walk"]
              /\ ch_loc' = [ch_loc EXCEPT ![t].p = 0, ![t].it = NULL]
              /\ ch_casfail' = TRUE
              /\ UNCHANGED <<ch_slots, ch_nodes, ch_ret>>
  /\ UNCHANGED <<ch_calls, ch_keys>>
  /\ UNCHANGED not_chash_vars

\* chash_put lines 543-551: xmalloc the node, atomic_cas(p, NULL, new); on
\* failure free it and start again from the head of the slot
chash_put_cas(t) ==
  /\ ch_pc[t] = "cas"
  /\ LET l   == ch_loc[t]
         new == Len(ch_nodes) + 1
     IN  IF ChashDeref(l.slot, l.p) = NULL
         THEN /\ ch_nodes' =
                   IF l.p = 0
                   THEN Append(ch_nodes, [chain |-> NULL, key |-> l.key, value |-> l.value])
                   ELSE Append([ch_nodes EXCEPT ![l.p].chain = new],
                               [chain |-> NULL, key |-> l.key, value |-> l.value])
              /\ ch_slots' = IF l.p = 0 THEN [ch_slots EXCEPT ![l.slot] = new] ELSE ch_slots
              /\ ch_pc' = [ch_pc EXCEPT ![t] = "idle"]
              /\ ch_ret' = [ch_ret EXCEPT ![t] = FALSE]
              /\ UNCHANGED <<ch_loc, ch_casfail>>
         ELSE /\ ch_pc' = [ch_pc EXCEPT ![t] = "walk"]
              /\ ch_loc' = [ch_loc EXCEPT ![t].p = 0, ![t].it = NULL]
              /\ ch_casfail' = TRUE
              /\ UNCHANGED <<ch_slots, ch_nodes, ch_ret>>
  /\ UNCHANGED <<ch_calls, ch_keys>>
  /\ UNCHANGED not_chash_vars

\* chash_get on a state: walk the chain of the key's slot
RECURSIVE chash_get_from(_, _, _)
chash_get_from(it, key, fuel) ==
  IF it = NULL \/ fuel = 0 THEN NULL
  ELSE IF ch_nodes[it].key = key THEN ch_nodes[it].value
  ELSE chash_get_from(ch_nodes[it].chain, key, fuel - 1)

chash_get(key) ==
  chash_get_from(ch_slots[hash_slot(ChashSize, key)], key, Len(ch_nodes) + 1)

\* chash_iter lines 570-574: the nodes of every slot in the order the inner
\* loop visits them, from slots[i] along the chain fields
RECURSIVE chash_chain(_, _)
chash_chain(it, fuel) ==
  IF it = NULL \/ fuel = 0 THEN <<>>
  ELSE <<it>> \o chash_chain(ch_nodes[it].chain, fuel - 1)

chash_iter == [i \in 0..(ChashSize - 1) |-> chash_chain(ch_slots[i], Len(ch_nodes))]

\* chash_get step by step, run by a thread of its own beside the writers.
\* chash_get lines 557-559: the call starts at the head of the key's slot
chash_get_begin(key) ==
  /\ ch_get.pc = "idle" /\ ch_get.calls < MaxGets
  /\ ch_get' = [pc |-> "walk", key |-> key, p |-> 0, it |-> NULL, steps |-> 0,
                calls |-> ch_get.calls + 1, ret |-> NULL]
  /\ UNCHANGED not_reader_vars

\* chash_get lines 559-561: one load_acquire of the slot or of it->chain,
\* and the tests of it and it->key
chash_get_walk ==
  /\ ch_get.pc = "walk"
  /\ LET it == ChashDeref(hash_slot(ChashSize, ch_get.key), ch_get.p)
     IN  ch_get' =
           IF it = NULL
           THEN [ch_get EXCEPT !.pc = "idle", !.it = NULL, !.ret = NULL,
                               !.steps = @ + 1]
           ELSE IF ch_nodes[it].key = ch_get.key
           THEN [ch_get EXCEPT !.pc = "value", !.it = it, !.steps = @ + 1]
           ELSE [ch_get EXCEPT !.p = it, !.it = it, !.steps = @ + 1]
  /\ UNCHANGED not_reader_vars

\* chash_get line 562: return load_acquire(&(it->value))
chash_get_value ==
  /\ ch_get.pc = "value"
  /\ ch_get' = [ch_get EXCEPT !.pc = "idle", !.ret = ch_nodes[ch_get.it].value,
                              !.steps = @ + 1]
  /\ UNCHANGED not_reader_vars

\* ------------------------------------------------------------------------
\* ------------------------------------------------------------------------
\* VCD writer (src/rt/vcd.c).  vcd_out is the sequence of fprintf calls on
\* vcd_file; each line records which function wrote it and, for a value
\* line, the simulation time of the change.

Sigs == 1..MaxSig

\* UINT64_MAX in a time of TimeBits bits
UINT64_MAX == Pow2(TimeBits) - 1

Times == 0..UINT64_MAX

\* vcd_key_fmt with the digits taken modulo 126 - 32
RECURSIVE vcd_key_fmt_94(_)
vcd_key_fmt_94(key) ==
  LET c == 33 + (key % (126 - 32))
  IN  IF key \div (126 - 33) > 0
      THEN <<c>> \o vcd_key_fmt_94(key \div (126 - 33))
      ELSE <<c>>

\* vcd_key_fmt: the digits of key in base 126 - 33, least significant first,
\* as characters from code 33 on
RECURSIVE vcd_key_fmt(_)
vcd_key_fmt(key) ==
  LET c == 33 + (key % (126 - 33))
  IN  IF key \div (126 - 33) > 0
      THEN <<c>> \o vcd_key_fmt(key \div (126 - 33))
      ELSE <<c>>

\* emit_value: one line "<value><key>"
emit_value(decl, by, now) ==
  [kind |-> "value", id |-> vcd_key_fmt(vcd_key[decl]), by |-> by, at |-> now]

\* vcd_event_cb with the time stamp written on every call
vcd_event_cb_stamp_always(now, decl) ==
  <<[kind |-> "time", id |-> <<>>, by |-> "vcd_event_cb", at |-> now],
    emit_value(decl, "vcd_event_cb", now)>>

\* vcd_event_cb lines 142-147: what one call writes
vcd_event_cb_lines(now, decl) ==
  (IF now # last_time
   THEN <<[kind |-> "time", id |-> <<>>, by |-> "vcd_event_cb", at |-> now]>>
   ELSE <<>>)
  \o <<emit_value(decl, "vcd_event_cb", now)>>

\* The kernel delivers a watch callback for a signal that vcd_restart gave a
\* watch, at a time not before the previous callback of this run
vcd_event_cb(now, decl) ==
  /\ vcd_runs > 0 /\ vcd_key[decl] # -1
  /\ vcd_cbs < MaxCbs
  /\ now >= vcd_now
  /\ vcd_out' = vcd_out \o vcd_event_cb_lines(now, decl)
  /\ last_time' = now
  /\ vcd_now' = now
  /\ vcd_cbs' = vcd_cbs + 1
  /\ UNCHANGED <<vcd_fmt, vcd_key, vcd_runs>>
  /\ UNCHANGED not_vcd_vars

\* vcd_process_signal over the signal declarations d..MaxSig: the keys given
\* (a function on the signals) and the $var lines written
RECURSIVE vcd_process_signals(_, _, _, _)
vcd_process_signals(d, next_key, keys, lines) ==
  IF d > MaxSig THEN [keys |-> keys, lines |-> lines]
  ELSE IF ~vcd_fmt[d] THEN vcd_process_signals(d + 1, next_key, keys, lines)
  ELSE vcd_process_signals(d + 1, next_key + 1, [keys EXCEPT ![d] = next_key],
         Append(lines, [kind |-> "var", id |-> vcd_key_fmt(next_key),
                        by |-> "vcd_process_signal", at |-> 0]))

\* $dumpvars: emit_value for every signal that has a key
RECURSIVE vcd_dumpvars(_, _)
vcd_dumpvars(d, keys) ==
  IF d > MaxSig THEN <<>>
  ELSE (IF keys[d] = -1 THEN <<>>
        ELSE <<[kind |-> "value", id |-> vcd_key_fmt(keys[d]),
                by |-> "vcd_restart", at |-> 0]>>)
       \o vcd_dumpvars(d + 1, keys)

\* vcd_restart: rewind and header, the declarations, the initial values; the
\* simulation starts again from time 0
vcd_restart ==
  /\ vcd_runs < MaxRuns
  /\ LET r == vcd_process_signals(1, 0, vcd_key, <<>>)
     IN  /\ vcd_key' = r.keys
         /\ vcd_out' = vcd_out
               \o <<[kind |-> "header", id |-> <<>>, by |-> "vcd_emit_header", at |-> 0]>>
               \o r.lines \o vcd_dumpvars(1, r.keys)
  /\ vcd_now' = 0
  /\ vcd_runs' = vcd_runs + 1
  /\ UNCHANGED <<last_time, vcd_fmt, vcd_cbs>>
  /\ UNCHANGED not_vcd_vars


\* ------------------------------------------------------------------------
\* Type objects (src/type.c).  A type is a record of the items has_map gives
\* its kind; object_new zeroes them all.  A call that does not return is an
\* outcome of its own: "abort" for a failed assertion, "hang" for a loop or
\* a recursion that never ends.

TypeKinds ==
  {"T_SUBTYPE", "T_INTEGER", "T_REAL", "T_ENUM", "T_PHYSICAL", "T_CARRAY",
   "T_UARRAY", "T_RECORD", "T_FILE", "T_ACCESS", "T_FUNC", "T_INCOMPLETE",
   "T_PROC", "T_NONE", "T_PROTECTED"}

has_map(kind) ==
  CASE kind = "T_SUBTYPE"    -> {"I_IDENT", "I_BASE", "I_RESOLUTION", "I_CONSTR"}
    [] kind = "T_INTEGER"    -> {"I_IDENT", "I_DIMS"}
    [] kind = "T_REAL"       -> {"I_IDENT", "I_DIMS"}
    [] kind = "T_ENUM"       -> {"I_IDENT", "I_LITERALS", "I_DIMS"}
    [] kind = "T_PHYSICAL"   -> {"I_IDENT", "I_UNITS", "I_DIMS"}
    [] kind = "T_CARRAY"     -> {"I_IDENT", "I_ELEM", "I_DIMS"}
    [] kind = "T_UARRAY"     -> {"I_IDENT", "I_INDEXCON", "I_ELEM"}
    [] kind = "T_RECORD"     -> {"I_IDENT", "I_FIELDS"}
    [] kind = "T_FILE"       -> {"I_IDENT", "I_FILE"}
    [] kind = "T_ACCESS"     -> {"I_IDENT", "I_ACCESS"}
    [] kind = "T_FUNC"       -> {"I_IDENT", "I_PTYPES", "I_RESULT", "I_TEXT_BUF"}
    [] kind = "T_INCOMPLETE" -> {"I_IDENT"}
    [] kind = "T_PROC"       -> {"I_IDENT", "I_PTYPES", "I_TEXT_BUF"}
    [] kind = "T_NONE"       -> {"I_IDENT"}
    [] kind = "T_PROTECTED"  -> {"I_IDENT", "I_DECLS", "I_REF"}

\* an ident_t is the interned name; the NULL ident is the empty name
NULL_IDENT == ""

Idents == {"universal_integer", "universal_real", "WORK.T"}

TypeIds == 1..Len(types)

Failures == {"abort", "hang"}

Bool(b) == IF b THEN "true" ELSE "false"

\* object_new: every item zero
object_new(kind) ==
  [kind |-> kind, ident |-> NULL_IDENT, base |-> NULL, elem |-> NULL,
   dims |-> <<>>, access |-> NULL, result |-> NULL, params |-> <<>>,
   constr |-> NULL, fields |-> <<>>, indexes |-> <<>>]

type_kind(t) == types[t].kind

\* type_has_ident answering that no type has an identifier
type_has_ident_never(t) == FALSE

type_has_ident(t) == types[t].ident # NULL_IDENT

type_dims(t) == Len(types[t].dims)

type_params(t) == Len(types[t].params)

type_has_constraint(t) == types[t].constr # NULL

\* type_base_recur: the loop follows base while the kind is T_SUBTYPE;
\* type_base asserts the item is set.  The result is a type, or -1 when the
\* assertion fails, or -2 when the loop never ends: a walk of more than
\* MaxTypes steps has met some type twice.
RECURSIVE type_base_recur_from(_, _)
type_base_recur_from(t, fuel) ==
  IF types[t].kind # "T_SUBTYPE" THEN t
  ELSE IF types[t].base = NULL THEN -1
  ELSE IF fuel = 0 THEN -2
  ELSE type_base_recur_from(types[t].base, fuel - 1)

type_base_recur(t) == type_base_recur_from(t, MaxTypes)

FailureOf(t) == IF t = -1 THEN "abort" ELSE "hang"

\* type_base_kind answering with the kind of t itself
type_base_kind_own(t, fuel) == types[t].kind

\* type_base_kind: recursion on the base of a subtype
RECURSIVE type_base_kind_from(_, _)
type_base_kind_from(t, fuel) ==
  IF types[t].kind = "T_SUBTYPE"
  THEN IF types[t].base = NULL THEN "abort"
       ELSE IF fuel = 0 THEN "hang"
       ELSE type_base_kind_from(types[t].base, fuel - 1)
  ELSE types[t].kind

type_base_kind(t) == type_base_kind_from(t, MaxTypes)

\* a predicate on the base kind
OnBaseKind(t, kinds) ==
  LET base == type_base_kind(t)
  IN  IF base \in Failures THEN base ELSE Bool(base \in kinds)

type_is_array(t) == OnBaseKind(t, {"T_CARRAY", "T_UARRAY"})

type_is_record(t) == OnBaseKind(t, {"T_RECORD"})

type_is_enum(t) == OnBaseKind(t, {"T_ENUM"})

type_is_physical(t) == OnBaseKind(t, {"T_PHYSICAL"})

type_is_integer(t) == OnBaseKind(t, {"T_INTEGER"})

type_is_real(t) == OnBaseKind(t, {"T_REAL"})

type_is_discrete(t) == OnBaseKind(t, {"T_INTEGER", "T_ENUM"})

type_is_scalar(t) ==
  OnBaseKind(t, {"T_INTEGER", "T_REAL", "T_ENUM", "T_PHYSICAL", "T_NONE"})

type_is_composite(t) == OnBaseKind(t, {"T_CARRAY", "T_UARRAY", "T_RECORD"})

\* type_is_unconstrained: a subtype with a constraint is constrained, one
\* without asks its base
RECURSIVE type_is_unconstrained_from(_, _)
type_is_unconstrained_from(t, fuel) ==
  IF types[t].kind = "T_SUBTYPE"
  THEN IF ~type_has_constraint(t)
       THEN IF types[t].base = NULL THEN "abort"
            ELSE IF fuel = 0 THEN "hang"
            ELSE type_is_unconstrained_from(types[t].base, fuel - 1)
       ELSE "false"
  ELSE Bool(types[t].kind = "T_UARRAY")

type_is_unconstrained(t) == type_is_unconstrained_from(t, MaxTypes)

\* type_is_universal: the switch is on the kind of t itself
type_is_universal(t) ==
  CASE types[t].kind = "T_INTEGER" -> Bool(types[t].ident = "universal_integer")
    [] types[t].kind = "T_REAL"    -> Bool(types[t].ident = "universal_real")
    [] OTHER                       -> "false"

\* type_is_convertible without the T_NONE case
type_is_convertible_no_none(from, to) ==
  LET fromk == type_base_kind(from)
      tok   == type_base_kind(to)
  IN  IF fromk \in Failures THEN fromk
      ELSE IF tok \in Failures THEN tok
      ELSE IF type_is_universal(from) # "true" THEN "false"
      ELSE IF type_is_universal(to) = "true" THEN "false"
      ELSE IF fromk = "T_INTEGER" /\ tok = "T_INTEGER" THEN "true"
      ELSE IF fromk = "T_REAL" /\ tok = "T_REAL" THEN "true"
      ELSE "false"

type_is_convertible(from, to) ==
  LET fromk == type_base_kind(from)
      tok   == type_base_kind(to)
  IN  IF fromk \in Failures THEN fromk
      ELSE IF tok \in Failures THEN tok
      ELSE IF fromk = "T_NONE" THEN "true"
      ELSE IF type_is_universal(from) # "true" THEN "false"
      ELSE IF type_is_universal(to) = "true" THEN "false"
      ELSE IF fromk = "T_INTEGER" /\ tok = "T_INTEGER" THEN "true"
      ELSE IF fromk = "T_REAL" /\ tok = "T_REAL" THEN "true"
      ELSE "false"


\* The recursion of type_eq and type_strict_eq is on pairs of types: one
\* deeper than MaxTypes * MaxTypes calls has met some pair twice and never
\* ends.
EqFuel == MaxTypes * MaxTypes

\* compare_c_u_arrays looking only for a constrained a and an unconstrained b
compare_c_u_arrays_one_way(kind_a, kind_b) ==
  kind_a = "T_CARRAY" /\ kind_b = "T_UARRAY"

\* compare_c_u_arrays of type_eq
compare_c_u_arrays(kind_a, kind_b) ==
  \/ kind_a = "T_CARRAY" /\ kind_b = "T_UARRAY"
  \/ kind_a = "T_UARRAY" /\ kind_b = "T_CARRAY"

RECURSIVE type_eq_from(_, _, _)
RECURSIVE type_eq_params(_, _, _, _)

\* the loop of type_eq over the parameters from index i on
type_eq_params(a, b, i, fuel) ==
  IF i > type_params(a) THEN "true"
  ELSE LET r == type_eq_from(types[a].params[i], types[b].params[i], fuel)
       IN  IF r # "true" THEN r ELSE type_eq_params(a, b, i + 1, fuel)

type_eq_from(a0, b0, fuel) ==
  IF a0 = NULL \/ b0 = NULL THEN "abort"
  ELSE IF a0 = b0 THEN "true"
  ELSE
    LET a == type_base_recur(a0) IN
    IF a < 0 THEN FailureOf(a)
    ELSE
    LET b == type_base_recur(b0) IN
    IF b < 0 THEN FailureOf(b)
    ELSE
    LET kind_a == types[a].kind
        kind_b == types[b].kind
        c_u_arrays == compare_c_u_arrays(kind_a, kind_b)
        incomplete == kind_a = "T_INCOMPLETE" \/ kind_b = "T_INCOMPLETE"
        has == has_map(kind_a)
    IN  IF kind_a # kind_b /\ ~c_u_arrays /\ ~incomplete THEN "false"
        ELSE IF type_has_ident(a) /\ type_has_ident(b)
                /\ types[a].ident # types[b].ident THEN "false"
        ELSE IF incomplete THEN "true"
        ELSE IF kind_a = "T_ACCESS"
          THEN IF fuel = 0 THEN "hang"
               ELSE type_eq_from(types[a].access, types[b].access, fuel - 1)
        ELSE IF c_u_arrays
          THEN IF types[a].elem = NULL \/ types[b].elem = NULL THEN "abort"
               ELSE IF fuel = 0 THEN "hang"
               ELSE type_eq_from(types[a].elem, types[b].elem, fuel - 1)
        ELSE IF "I_DIMS" \in has /\ type_dims(a) # type_dims(b) THEN "false"
        ELSE
          LET res == IF kind_a # "T_FUNC" THEN "true"
                     ELSE IF types[a].result = NULL \/ types[b].result = NULL
                       THEN "abort"
                     ELSE IF fuel = 0 THEN "hang"
                     ELSE type_eq_from(types[a].result, types[b].result, fuel - 1)
          IN  IF res # "true" THEN res
              ELSE IF "I_PTYPES" \in has
                THEN IF type_params(a) # type_params(b) THEN "false"
                     ELSE IF type_params(a) = 0 THEN "true"
                     ELSE IF fuel = 0 THEN "hang"
                     ELSE type_eq_params(a, b, 1, fuel - 1)
              ELSE "true"

type_eq(a, b) == type_eq_from(a, b, EqFuel)

RECURSIVE type_strict_eq_from(_, _, _)
RECURSIVE type_strict_eq_params(_, _, _, _)

type_strict_eq_params(a, b, i, fuel) ==
  IF i > type_params(a) THEN "true"
  ELSE LET r == type_strict_eq_from(types[a].params[i], types[b].params[i], fuel)
       IN  IF r # "true" THEN r ELSE type_strict_eq_params(a, b, i + 1, fuel)

type_strict_eq_from(a, b, fuel) ==
  IF a = NULL \/ b = NULL THEN "abort"
  ELSE IF a = b THEN "true"
  ELSE
    LET kind_a == types[a].kind
        kind_b == types[b].kind
        has == has_map(kind_a)
    IN  IF kind_a # kind_b THEN "false"
        ELSE IF type_has_ident(a) /\ type_has_ident(b)
                /\ types[a].ident # types[b].ident THEN "false"
        ELSE IF kind_a = "T_ACCESS"
          THEN type_eq(types[a].access, types[b].access)
        ELSE IF "I_ELEM" \in has
          THEN IF types[a].elem = NULL \/ types[b].elem = NULL THEN "abort"
               ELSE IF fuel = 0 THEN "hang"
               ELSE type_strict_eq_from(types[a].elem, types[b].elem, fuel - 1)
        ELSE IF "I_DIMS" \in has /\ type_dims(a) # type_dims(b) THEN "false"
        ELSE
          LET res == IF kind_a # "T_FUNC" THEN "true"
                     ELSE IF types[a].result = NULL \/ types[b].result = NULL
                       THEN "abort"
                     ELSE IF fuel = 0 THEN "hang"
                     ELSE type_strict_eq_from(types[a].result, types[b].result, fuel - 1)
          IN  IF res # "true" THEN res
              ELSE IF "I_PTYPES" \in has
                THEN IF type_params(a) # type_params(b) THEN "false"
                     ELSE IF type_params(a) = 0 THEN "true"
                     ELSE IF fuel = 0 THEN "hang"
                     ELSE type_strict_eq_params(a, b, 1, fuel - 1)
              ELSE "true"

type_strict_eq(a, b) == type_strict_eq_from(a, b, EqFuel)

\* The operations that build types.  lookup_item ends the program when the
\* kind of the object does not have the item.

type_new(kind) ==
  /\ ~frozen
  /\ Len(types) < MaxTypes
  /\ types' = Append(types, object_new(kind))
  /\ UNCHANGED <<frozen, not_type_vars>>

type_set_ident(t, id) ==
  /\ ~frozen
  /\ "I_IDENT" \in has_map(types[t].kind)
  /\ types' = [types EXCEPT ![t].ident = id]
  /\ UNCHANGED <<frozen, not_type_vars>>

type_set_base(t, b) ==
  /\ ~frozen
  /\ "I_BASE" \in has_map(types[t].kind)
  /\ types' = [types EXCEPT ![t].base = b]
  /\ UNCHANGED <<frozen, not_type_vars>>

type_set_elem(t, e) ==
  /\ ~frozen
  /\ "I_ELEM" \in has_map(types[t].kind)
  /\ types' = [types EXCEPT ![t].elem = e]
  /\ UNCHANGED <<frozen, not_type_vars>>

type_add_dim(t, r) ==
  /\ ~frozen
  /\ "I_DIMS" \in has_map(types[t].kind)
  /\ Len(types[t].dims) < MaxDims
  /\ types' = [types EXCEPT ![t].dims = Append(@, r)]
  /\ UNCHANGED <<frozen, not_type_vars>>

type_set_access(t, a) ==
  /\ ~frozen
  /\ "I_ACCESS" \in has_map(types[t].kind)
  /\ types' = [types EXCEPT ![t].access = a]
  /\ UNCHANGED <<frozen, not_type_vars>>

type_set_result(t, r) ==
  /\ ~frozen
  /\ "I_RESULT" \in has_map(types[t].kind)
  /\ types' = [types EXCEPT ![t].result = r]
  /\ UNCHANGED <<frozen, not_type_vars>>

type_add_param(t, p) ==
  /\ ~frozen
  /\ "I_PTYPES" \in has_map(types[t].kind)
  /\ Len(types[t].params) < MaxParams
  /\ types' = [types EXCEPT ![t].params = Append(@, p)]
  /\ UNCHANGED <<frozen, not_type_vars>>

type_add_field(t, ftype) ==
  /\ ~frozen
  /\ "I_FIELDS" \in has_map(types[t].kind)
  /\ Len(types[t].fields) < MaxFields
  /\ types' = [types EXCEPT ![t].fields = Append(@, ftype)]
  /\ UNCHANGED <<frozen, not_type_vars>>

type_add_index_constr(t, c) ==
  /\ ~frozen
  /\ "I_INDEXCON" \in has_map(types[t].kind)
  /\ Len(types[t].indexes) < MaxDims
  /\ types' = [types EXCEPT ![t].indexes = Append(@, c)]
  /\ UNCHANGED <<frozen, not_type_vars>>

\* freeze of the arena the types live in: one way
freeze ==
  /\ ~frozen
  /\ frozen' = TRUE
  /\ UNCHANGED <<types, not_type_vars>>

type_set_constraint(t, c) ==
  /\ ~frozen
  /\ "I_CONSTR" \in has_map(types[t].kind)
  /\ types' = [types EXCEPT ![t].constr = c]
  /\ UNCHANGED <<frozen, not_type_vars>>


\* ------------------------------------------------------------------------
\* Layouts (jit-layout.c).  A range is a tree named by its index in
\* range_tab; what the folding helpers find in it is recorded there.

range_tab ==
  << [folded |-> TRUE,  low |-> 0, high |-> 1],
     [folded |-> TRUE,  low |-> 0, high |-> 299],
     [folded |-> FALSE, low |-> 0, high |-> 0] >>

Ranges == 1..Len(range_tab)

\* folded_bounds: the bounds of the range are static
folded_bounds(r) == range_tab[r].folded

\* folded_length: the static length of the range, -1 when it has none
folded_length(r) ==
  IF ~range_tab[r].folded THEN -1
  ELSE IF range_tab[r].high < range_tab[r].low THEN 0
  ELSE range_tab[r].high - range_tab[r].low + 1

\* bits_for_range of a non-null range of naturals
bits_for_range(low, high) ==
  IF high <= 1 THEN 1
  ELSE IF high <= 255 THEN 8
  ELSE IF high <= 65535 THEN 16
  ELSE 32

\* ALIGN_UP: x rounded up to a multiple of a
ALIGN_UP(x, a) == ((x + a - 1) \div a) * a

sizeof_ptr == 8

sizeof_int64 == 8

sizeof_double == 8

\* type_elem: of the base for a subtype, the type itself for T_NONE; -1 when
\* an assertion fails or the kind has no element item
RECURSIVE type_elem_from(_, _)
type_elem_from(t, fuel) ==
  IF types[t].kind = "T_SUBTYPE"
  THEN IF types[t].base = NULL THEN -1
       ELSE IF fuel = 0 THEN -2
       ELSE type_elem_from(types[t].base, fuel - 1)
  ELSE IF types[t].kind = "T_NONE" THEN t
  ELSE IF "I_ELEM" \notin has_map(types[t].kind) THEN -1
  ELSE IF types[t].elem = NULL THEN -1
  ELSE types[t].elem

type_elem(t) == type_elem_from(t, MaxTypes)

\* "elem = type_elem(type); while (type_is_array(elem)) elem = type_elem(elem)"
RECURSIVE type_elem_recur_from(_, _)
type_elem_recur_from(t, fuel) ==
  LET elem == type_elem(t)
  IN  IF elem < 0 THEN elem
      ELSE IF type_is_array(elem) \in Failures THEN -1
      ELSE IF type_is_array(elem) = "false" THEN elem
      ELSE IF fuel = 0 THEN -2
      ELSE type_elem_recur_from(elem, fuel - 1)

type_elem_recur(t) == type_elem_recur_from(t, MaxTypes)

\* type_fields and type_field: of the base for a subtype; the types of the
\* field declarations in order
type_fields(t) ==
  LET b == type_base_recur(t)
  IN  IF b < 0 THEN <<>> ELSE types[b].fields

\* dimension_of: a subtype with a constraint has the constraint's ranges,
\* one without has its base's; an unconstrained array one per index
\* constraint; a constrained array one per range
RECURSIVE dimension_of_from(_, _)
dimension_of_from(t, fuel) ==
  IF types[t].kind = "T_SUBTYPE"
  THEN IF type_has_constraint(t) THEN 1
       ELSE IF types[t].base = NULL \/ fuel = 0 THEN 0
       ELSE dimension_of_from(types[t].base, fuel - 1)
  ELSE IF types[t].kind = "T_UARRAY" THEN Len(types[t].indexes)
  ELSE Len(types[t].dims)

dimension_of(t) == dimension_of_from(t, MaxTypes)

\* range_of: the i-th of those ranges
RECURSIVE range_of_from(_, _, _)
range_of_from(t, i, fuel) ==
  IF types[t].kind = "T_SUBTYPE"
  THEN IF type_has_constraint(t) THEN types[t].constr
       ELSE range_of_from(types[t].base, i, fuel - 1)
  ELSE types[t].dims[i]

range_of(t, i) == range_of_from(t, i, MaxTypes)

\* count_sub_elements: [fail, n]; fail when a call inside does not return
RECURSIVE count_sub_elements_from(_, _)
RECURSIVE count_sub_elements_dims(_, _, _, _)

\* the loop over the dimensions from i on
count_sub_elements_dims(type, i, ndims, length) ==
  IF i > ndims THEN length
  ELSE LET dlen == folded_length(range_of(type, i))
       IN  IF dlen < 0 THEN -1
           ELSE count_sub_elements_dims(type, i + 1, ndims, length * dlen)

count_sub_elements_from(type, fuel) ==
  IF type_is_array(type) \in Failures THEN [fail |-> TRUE, n |-> 0]
  ELSE IF type_is_array(type) = "true"
  THEN IF type_is_unconstrained(type) = "true" THEN [fail |-> FALSE, n |-> -1]
       ELSE
         LET ndims == dimension_of(type)
             elem  == type_elem(type)
         IN  IF elem < 0 \/ fuel = 0 THEN [fail |-> TRUE, n |-> 0]
             ELSE LET sub == count_sub_elements_from(elem, fuel - 1)
                  IN  IF sub.fail THEN sub
                      ELSE [fail |-> FALSE,
                            n |-> count_sub_elements_dims(type, 1, ndims, sub.n)]
  ELSE [fail |-> FALSE, n |-> 1]

count_sub_elements(type) == count_sub_elements_from(type, MaxTypes)

\* type_const_bounds: every array bound in the type is static
type_const_bounds(type) ==
  LET c == count_sub_elements(type)
  IN  ~c.fail /\ c.n >= 0

\* type_is_homogeneous: the scalars of the type are all of one type
type_is_homogeneous(type) ==
  IF type_is_array(type) = "true"
  THEN LET elem == type_elem_recur(type)
       IN  elem > 0 /\ type_is_record(elem) = "false"
  ELSE type_is_record(type) = "false"

layout_part(offset, size, repeat, align, class) ==
  [offset |-> offset, size |-> size, repeat |-> repeat, align |-> align,
   class |-> class]

\* a call that ends the program
LayoutFail(cache, heap) == [l |-> -1, cache |-> cache, heap |-> heap]

\* the end of layout_of without the hash_put
layout_done_uncached(type, cache, heap, lay) ==
  [l |-> Len(heap) + 1, cache |-> cache, heap |-> Append(heap, lay)]

\* "hash_put(cache, type, l); return l" with the layout just built
layout_done(type, cache, heap, lay) ==
  [l |-> Len(heap) + 1,
   cache |-> hash_put(cache, type, Len(heap) + 1).t,
   heap |-> Append(heap, lay)]

\* the offset of a record part with the alignment left out
record_part_offset_packed(offset, fl) == offset

\* the offset of a record part taken to the multiple after the next
record_part_offset_padded(offset, fl) == ALIGN_UP(offset, fl.align) + fl.align

\* "offset = ALIGN_UP(offset, fl->align)"
record_part_offset(offset, fl) == ALIGN_UP(offset, fl.align)

\* one scalar part that is the whole layout
scalar_layout(size) ==
  [size |-> size, align |-> size,
   parts |-> <<layout_part(0, size, 1, size, "LC_DATA")>>]

RECURSIVE layout_of_in(_, _, _, _)
RECURSIVE layout_of_fields(_, _, _, _, _, _, _)

\* the loop of layout_of over the fields from i on: [l, cache, heap, parts,
\* offset], l = -1 when a call for a field type ends the program
layout_of_fields(ftypes, i, offset, parts, cache, heap, fuel) ==
  IF i > Len(ftypes)
  THEN [l |-> 0, cache |-> cache, heap |-> heap, parts |-> parts, offset |-> offset]
  ELSE LET r == layout_of_in(ftypes[i], cache, heap, fuel)
       IN  IF r.l < 0
           THEN [l |-> -1, cache |-> cache, heap |-> heap, parts |-> parts,
                 offset |-> offset]
           ELSE LET fl  == r.heap[r.l]
                    off == record_part_offset(offset, fl)
                IN  layout_of_fields(ftypes, i + 1, off + fl.size,
                      Append(parts, layout_part(off, fl.size, 1, fl.align, "LC_DATA")),
                      r.cache, r.heap, fuel)

layout_of_in(type, cache, heap, fuel) ==
  LET l == hash_get(cache, type) IN
  IF l # NULL THEN [l |-> l, cache |-> cache, heap |-> heap]
  ELSE IF type_base_kind(type) \in Failures \/ fuel = 0 THEN LayoutFail(cache, heap)
  ELSE IF \/ type_is_integer(type) = "true" \/ type_is_physical(type) = "true"
          \/ type_is_enum(type) = "true"
  THEN LET base == type_base_recur(type)
       IN  IF type_dims(base) = 0 THEN LayoutFail(cache, heap)
           ELSE LET r == types[base].dims[1]
                IN  IF ~folded_bounds(r) THEN LayoutFail(cache, heap)
                    ELSE LET bits == bits_for_range(range_tab[r].low, range_tab[r].high)
                         IN  layout_done(type, cache, heap,
                               scalar_layout(ALIGN_UP(bits, 8) \div 8))
  ELSE IF type_is_real(type) = "true"
  THEN layout_done(type, cache, heap, scalar_layout(sizeof_double))
  ELSE IF type_is_array(type) = "true"
  THEN LET ndims  == dimension_of(type)
           nelems == count_sub_elements(type)
       IN  IF nelems.fail THEN LayoutFail(cache, heap)
           ELSE IF nelems.n >= 0
           THEN LET elem == type_elem_recur(type)
                IN  IF elem < 0 THEN LayoutFail(cache, heap)
                    ELSE LET r == layout_of_in(elem, cache, heap, fuel - 1)
                         IN  IF r.l < 0 THEN LayoutFail(cache, heap)
                             ELSE LET el == r.heap[r.l]
                                  IN  layout_done(type, r.cache, r.heap,
                                        [size |-> nelems.n * el.size,
                                         align |-> el.align,
                                         parts |-> <<layout_part(0, el.size, nelems.n,
                                                                 el.align, "LC_DATA")>>])
           ELSE IF types[type].kind = "T_SUBTYPE"
           THEN layout_of_in(type_base_recur(type), cache, heap, fuel - 1)
           ELSE layout_done(type, cache, heap,
                  [size |-> sizeof_ptr + ndims * 2 * sizeof_int64,
                   align |-> sizeof_ptr,
                   parts |-> <<layout_part(0, sizeof_ptr, 1, sizeof_ptr, "LC_EXTERNAL"),
                               layout_part(sizeof_ptr, sizeof_int64, ndims * 2,
                                           sizeof_int64, "LC_BOUNDS")>>])
  ELSE IF type_is_record(type) = "true"
  THEN LET f == layout_of_fields(type_fields(type), 1, 0, <<>>, cache, heap, fuel - 1)
       IN  IF f.l < 0 THEN LayoutFail(cache, heap)
           ELSE layout_done(type, f.cache, f.heap,
                  [size |-> f.offset, align |-> sizeof_ptr, parts |-> f.parts])
  ELSE LayoutFail(cache, heap)

\* The second copy of layout_of.  It assigns no class: every part keeps the
\* class xcalloc_flex left, the first of layout_class_t.
layout_class_t == <<"LC_DATA", "LC_BOUNDS", "LC_OFFSET", "LC_EXTERNAL">>

xcalloc_class == layout_class_t[1]

RECURSIVE layout_of_2_in(_, _, _, _)
RECURSIVE layout_of_2_fields(_, _, _, _, _, _, _)

layout_of_2_fields(ftypes, i, offset, parts, cache, heap, fuel) ==
  IF i > Len(ftypes)
  THEN [l |-> 0, cache |-> cache, heap |-> heap, parts |-> parts, offset |-> offset]
  ELSE LET r == layout_of_2_in(ftypes[i], cache, heap, fuel)
       IN  IF r.l < 0
           THEN [l |-> -1, cache |-> cache, heap |-> heap, parts |-> parts,
                 offset |-> offset]
           ELSE LET fl  == r.heap[r.l]
                    off == record_part_offset(offset, fl)
                IN  layout_of_2_fields(ftypes, i + 1, off + fl.size,
                      Append(parts, layout_part(off, fl.size, 1, fl.align,
                                                xcalloc_class)),
                      r.cache, r.heap, fuel)

layout_of_2_in(type, cache, heap, fuel) ==
  LET l == hash_get(cache, type) IN
  IF l # NULL THEN [l |-> l, cache |-> cache, heap |-> heap]
  ELSE IF type_base_kind(type) \in Failures \/ fuel = 0 THEN LayoutFail(cache, heap)
  ELSE IF \/ type_is_integer(type) = "true" \/ type_is_physical(type) = "true"
          \/ type_is_enum(type) = "true"
  THEN LET base == type_base_recur(type)
       IN  IF type_dims(base) = 0 THEN LayoutFail(cache, heap)
           ELSE LET r == types[base].dims[1]
                IN  IF ~folded_bounds(r) THEN LayoutFail(cache, heap)
                    ELSE LET bits == bits_for_range(range_tab[r].low, range_tab[r].high)
                             size == ALIGN_UP(bits, 8) \div 8
                         IN  layout_done(type, cache, heap,
                               [size |-> size, align |-> size,
                                parts |-> <<layout_part(0, size, 1, size,
                                                        xcalloc_class)>>])
  ELSE IF type_is_real(type) = "true"
  THEN layout_done(type, cache, heap,
         [size |-> sizeof_double, align |-> sizeof_double,
          parts |-> <<layout_part(0, sizeof_double, 1, sizeof_double,
                                  xcalloc_class)>>])
  ELSE IF type_is_array(type) = "true"
  THEN LET ndims  == dimension_of(type)
           nelems == count_sub_elements(type)
       IN  IF nelems.fail THEN LayoutFail(cache, heap)
           ELSE IF nelems.n < 0
           THEN layout_done(type, cache, heap,
                  [size |-> sizeof_ptr + ndims * 2 * sizeof_int64,
                   align |-> sizeof_ptr,
                   parts |-> <<layout_part(0, sizeof_ptr, 1, sizeof_ptr,
                                           xcalloc_class),
                               layout_part(sizeof_ptr, sizeof_int64, ndims * 2,
                                           sizeof_int64, xcalloc_class)>>])
           ELSE LET elem == type_elem_recur(type)
                IN  IF elem < 0 THEN LayoutFail(cache, heap)
                    ELSE LET r == layout_of_2_in(elem, cache, heap, fuel - 1)
                         IN  IF r.l < 0 THEN LayoutFail(cache, heap)
                             ELSE LET el == r.heap[r.l]
                                  IN  layout_done(type, r.cache, r.heap,
                                        [size |-> nelems.n * el.size,
                                         align |-> el.align,
                                         parts |-> <<layout_part(0, el.size, nelems.n,
                                                                 el.align,
                                                                 xcalloc_class)>>])
  ELSE IF type_is_record(type) = "true"
  THEN LET f == layout_of_2_fields(type_fields(type), 1, 0, <<>>, cache, heap,
                                   fuel - 1)
       IN  IF f.l < 0 THEN LayoutFail(cache, heap)
           ELSE layout_done(type, f.cache, f.heap,
                  [size |-> f.offset, align |-> sizeof_ptr, parts |-> f.parts])
  ELSE LayoutFail(cache, heap)

\* the parts of a signal layout with the offset part left out
signal_parts_no_offset(has_offset, has_bounds, ndims) ==
  LET p0 == <<layout_part(0, sizeof_ptr, 1, sizeof_ptr, "LC_EXTERNAL")>>
      p2 == IF has_bounds
            THEN Append(p0, layout_part(sizeof_ptr, 8, ndims * 2, 8, "LC_BOUNDS"))
            ELSE p0
  IN  [size |-> sizeof_ptr + (IF has_bounds THEN 8 * (ndims * 2) ELSE 0),
       align |-> sizeof_ptr, parts |-> p2]

\* the parts of a signal layout after the pointer: the offset part of a
\* homogeneous signal, then, for an array without static bounds, the bounds
signal_parts(has_offset, has_bounds, ndims) ==
  LET p0 == <<layout_part(0, sizeof_ptr, 1, sizeof_ptr, "LC_EXTERNAL")>>
      s0 == sizeof_ptr
      p1 == IF has_offset
            THEN Append(p0, layout_part(ALIGN_UP(s0, 8), 8, 1, 8, "LC_OFFSET"))
            ELSE p0
      s1 == IF has_offset THEN s0 + 8 ELSE s0
      p2 == IF has_bounds
            THEN Append(p1, layout_part(ALIGN_UP(s1, 8), 8, ndims * 2, 8, "LC_BOUNDS"))
            ELSE p1
      s2 == IF has_bounds THEN s1 + 8 * (ndims * 2) ELSE s1
  IN  [size |-> s2, align |-> sizeof_ptr, parts |-> p2]

RECURSIVE signal_layout_of_in(_, _, _, _)
RECURSIVE signal_layout_of_fields(_, _, _, _, _, _, _)

signal_layout_of_fields(ftypes, i, offset, parts, cache, heap, fuel) ==
  IF i > Len(ftypes)
  THEN [l |-> 0, cache |-> cache, heap |-> heap, parts |-> parts, offset |-> offset]
  ELSE LET r == signal_layout_of_in(ftypes[i], cache, heap, fuel)
       IN  IF r.l < 0
           THEN [l |-> -1, cache |-> cache, heap |-> heap, parts |-> parts,
                 offset |-> offset]
           ELSE LET fl  == r.heap[r.l]
                    off == record_part_offset(offset, fl)
                IN  signal_layout_of_fields(ftypes, i + 1, off + fl.size,
                      Append(parts, layout_part(off, fl.size, 1, fl.align, "LC_DATA")),
                      r.cache, r.heap, fuel)

signal_layout_of_in(type, cache, heap, fuel) ==
  LET l == hash_get(cache, type) IN
  IF l # NULL THEN [l |-> l, cache |-> cache, heap |-> heap]
  ELSE IF type_base_kind(type) \in Failures \/ fuel = 0 THEN LayoutFail(cache, heap)
  ELSE IF type_is_scalar(type) = "true"
  THEN layout_done(type, cache, heap,
         [size |-> 16, align |-> 8,
          parts |-> <<layout_part(0, sizeof_ptr, 1, sizeof_ptr, "LC_EXTERNAL"),
                      layout_part(8, 8, 1, 8, "LC_OFFSET")>>])
  ELSE IF type_is_record(type) = "true"
  THEN LET f == signal_layout_of_fields(type_fields(type), 1, 0, <<>>, cache, heap,
                                        fuel - 1)
       IN  IF f.l < 0 THEN LayoutFail(cache, heap)
           ELSE layout_done(type, f.cache, f.heap,
                  [size |-> f.offset, align |-> sizeof_ptr, parts |-> f.parts])
  ELSE IF count_sub_elements(type).fail THEN LayoutFail(cache, heap)
  ELSE IF type_const_bounds(type)
  THEN layout_done(type, cache, heap,
         signal_parts(type_is_homogeneous(type), FALSE, 0))
  ELSE IF types[type].kind = "T_SUBTYPE"
  THEN signal_layout_of_in(type_base_recur(type), cache, heap, fuel - 1)
  ELSE layout_done(type, cache, heap,
         signal_parts(type_is_homogeneous(type), TRUE, dimension_of(type)))

NoLayout == [size |-> 0, align |-> 0, parts |-> <<>>]

LayoutFns == {"layout_of", "signal_layout_of"}

\* what a call returned, kept to compare later calls with
LayoutReturned(fn, type, l, heap) ==
  /\ lo_last' = [fn |-> fn, type |-> type, l |-> l]
  /\ lo_first' = IF lo_first[fn][type].l = NULL
                 THEN [lo_first EXCEPT ![fn][type] = [l |-> l, val |-> heap[l]]]
                 ELSE lo_first
  /\ lo_calls' = lo_calls + 1

\* a call of layout_of that returns
layout_of(type) ==
  /\ frozen
  /\ lo_calls < MaxLayoutCalls
  /\ LET r == layout_of_in(type, layout_cache, layouts, MaxTypes)
     IN  /\ r.l > 0
         /\ layout_cache' = r.cache
         /\ layouts' = r.heap
         /\ LayoutReturned("layout_of", type, r.l, r.heap)
  /\ UNCHANGED <<signal_cache, not_layout_vars>>

\* a call, that returns, of layout_of in a build that holds its second copy
layout_of_2(type) ==
  /\ frozen
  /\ lo_calls < MaxLayoutCalls
  /\ lo_last.fn \in {"none", "layout_of_2"}
  /\ LET r == layout_of_2_in(type, layout_cache, layouts, MaxTypes)
     IN  /\ r.l > 0
         /\ layout_cache' = r.cache
         /\ layouts' = r.heap
         /\ lo_last' = [fn |-> "layout_of_2", type |-> type, l |-> r.l]
         /\ lo_first' = IF lo_first["layout_of"][type].l = NULL
                        THEN [lo_first EXCEPT !["layout_of"][type] =
                                [l |-> r.l, val |-> r.heap[r.l]]]
                        ELSE lo_first
         /\ lo_calls' = lo_calls + 1
  /\ UNCHANGED <<signal_cache, not_layout_vars>>

\* a call of signal_layout_of that returns
signal_layout_of(type) ==
  /\ frozen
  /\ lo_calls < MaxLayoutCalls
  /\ LET r == signal_layout_of_in(type, signal_cache, layouts, MaxTypes)
     IN  /\ r.l > 0
         /\ signal_cache' = r.cache
         /\ layouts' = r.heap
         /\ LayoutReturned("signal_layout_of", type, r.l, r.heap)
  /\ UNCHANGED <<layout_cache, not_layout_vars>>


\* ------------------------------------------------------------------------
\* Diagnostics of util.c: the hint queue and the error count

\* the functions a hint carries: default_hint_fn for hint_at, and for
\* set_hint_fn a function that reports one note and one that reports nothing
HintFns == {"note_fn", "quiet_fn"}

\* state of the diagnostics during one call: the queue, the count, the
\* messages written and hint functions called so far (out), and the number
\* of warn_at and note_at calls made (others)
DiagState == [hints |-> hints, n_errors |-> n_errors, out |-> <<>>, others |-> 0]

diag_event(kind, id) == [kind |-> kind, id |-> id]

pop_hint(d) == [d EXCEPT !.hints = Tail(@)]

RECURSIVE show_hint_loop(_)
RECURSIVE show_hint(_, _)
RECURSIVE note_at_in(_, _)

\* show_hint; inside is its static flag
show_hint(d, inside) ==
  IF inside THEN d ELSE show_hint_loop(d)

\* "while (hints != NULL) { (*hints->func)(hints->context); pop_hint(); }"
\* default_hint_fn and note_fn report with note_at while inside is set
show_hint_loop(d) ==
  IF d.hints = <<>> THEN d
  ELSE LET hint == Head(d.hints)
           called == [d EXCEPT !.out = Append(@, diag_event("hint", hint.id))]
           ran == IF hint.func = "quiet_fn" THEN called
                  ELSE note_at_in(called, TRUE)
       IN  show_hint_loop(pop_hint(ran))

\* note_at: the message, show_hint, and the count under unit-test
note_at_counting(d, inside) ==
  LET msg == [d EXCEPT !.out = Append(@, diag_event("note", 0)),
                       !.others = @ + 1]
      shown == show_hint(msg, inside)
  IN  [shown EXCEPT !.n_errors = @ + 1]

note_at_in(d, inside) ==
  LET msg == [d EXCEPT !.out = Append(@, diag_event("note", 0)),
                       !.others = @ + 1]
      shown == show_hint(msg, inside)
  IN  IF unit_test # 0 THEN [shown EXCEPT !.n_errors = @ + 1] ELSE shown

warn_at_in(d) ==
  LET msg == [d EXCEPT !.out = Append(@, diag_event("warning", 0)),
                       !.others = @ + 1]
      shown == show_hint(msg, FALSE)
  IN  IF unit_test # 0 THEN [shown EXCEPT !.n_errors = @ + 1] ELSE shown

\* error_at without the call of show_hint
error_at_no_flush(d) ==
  [d EXCEPT !.out = Append(@, diag_event("error", 0)), !.n_errors = @ + 1]

error_at_in(d) ==
  LET msg == [d EXCEPT !.out = Append(@, diag_event("error", 0))]
      shown == show_hint(msg, FALSE)
  IN  [shown EXCEPT !.n_errors = @ + 1]

error_count == n_errors

\* a diagnostic call op that took the diagnostics to d
diag_called(op, d) ==
  /\ diag_log.calls < MaxDiagCalls
  /\ hints' = d.hints
  /\ n_errors' = d.n_errors
  /\ diag_log' = [diag_log EXCEPT
                    !.calls = @ + 1,
                    !.errs = IF op = "error_at" THEN @ + 1 ELSE @,
                    !.others = @ + d.others,
                    !.last = [op |-> op, queued |-> hints, out |-> d.out]]
  /\ UNCHANGED <<unit_test, not_diag_vars>>

error_at == diag_called("error_at", error_at_in(DiagState))

warn_at == diag_called("warn_at", warn_at_in(DiagState))

note_at == diag_called("note_at", note_at_in(DiagState, FALSE))

\* a hint with function func put at the head of the queue
hint_queued(op, func) ==
  /\ Len(hints) < MaxHints
  /\ diag_log.seq < MaxHintSeq
  /\ hints' = <<[func |-> func, id |-> diag_log.seq + 1]>> \o hints
  /\ diag_log' = [diag_log EXCEPT
                    !.seq = @ + 1,
                    !.last = [op |-> op, queued |-> hints, out |-> <<>>]]
  /\ UNCHANGED <<n_errors, unit_test, not_diag_vars>>

hint_at == hint_queued("hint_at", "default_hint_fn")

set_hint_fn(fn) == hint_queued("set_hint_fn", fn)

clear_hint ==
  /\ hints # <<>>
  /\ hints' = <<>>
  /\ diag_log' = [diag_log EXCEPT
                    !.last = [op |-> "clear_hint", queued |-> hints, out |-> <<>>]]
  /\ UNCHANGED <<n_errors, unit_test, not_diag_vars>>

reset_error_count ==
  /\ n_errors # 0
  /\ n_errors' = 0
  /\ diag_log' = [diag_log EXCEPT
                    !.errs = 0, !.others = 0,
                    !.last = [op |-> "reset_error_count", queued |-> hints,
                              out |-> <<>>]]
  /\ UNCHANGED <<hints, unit_test, not_diag_vars>>


\* ------------------------------------------------------------------------
\* debug.c: the per-thread LRU cache of frames and debug_capture
\*
\* A di_lru_cache_t is an index into dbg.frame_pc (its frame.pc); a
\* debug_frame_t pointer is the index of the entry that holds the frame.
\* dbg.lru_cache lists the entries from the head of the list to its tail,
\* as the next pointers give them; dbg.next and dbg.prev hold each entry's
\* pointers, NULL or an entry.
\* dbg.frames is di->frames; dbg.ips keeps, next to each pointer pushed, the
\* ip the unwinder reported for it.  dbg.returned holds in the state
\* debug_capture returns in, until the thread calls into debug.c again.

Pcs == 0..MaxPc

\* the symbol platform_fill_frame finds for a pc: one pc lies in main
symbol_of(pc) == IF pc = MainPc THEN "main" ELSE "fn"

\* di_lru_reuse_frame: the frame is cleared and then describes pc
di_lru_reuse_frame(frame_pc, f, pc) == [frame_pc EXCEPT ![f] = pc]

\* the list walked from entry n along the next pointers
RECURSIVE di_lru_list(_, _)
di_lru_list(next, n) ==
  IF n = NULL THEN <<>> ELSE <<n>> \o di_lru_list(next, next[n])

\* the for loop of di_lru_get from the pointer that owner holds (NULL for
\* &lru_cache, an entry for its next): owner and size where the walk stops,
\* at an entry whose frame has this pc or at the NULL that ends the list
RECURSIVE di_lru_find(_, _, _, _)
di_lru_find(d, pc, owner, size) ==
  LET it == IF owner = NULL
              THEN (IF d.lru_cache = <<>> THEN NULL ELSE d.lru_cache[1])
              ELSE d.next[owner]
  IN  IF it # NULL /\ d.frame_pc[it] # pc
        THEN di_lru_find(d, pc, it, size + 1)
        ELSE [it |-> it, owner |-> owner, size |-> size]

\* the eviction branch of di_lru_get, lines 155-164: lru->prev is left as
\* it was
di_lru_evict(d, lru, head, pc) ==
  LET next1 == [d.next EXCEPT ![d.prev[lru]] = NULL]
      next2 == [next1 EXCEPT ![lru] = head]
      prev1 == [d.prev EXCEPT ![head] = lru]
  IN  [d EXCEPT !.next = next2, !.prev = prev1,
                !.lru_cache = di_lru_list(next2, lru),
                !.frame_pc = di_lru_reuse_frame(d.frame_pc, lru, pc)]

\* di_lru_get: the record's d is the cache afterwards, frame is *pframe
di_lru_get(d, pc) ==
  LET found == di_lru_find(d, pc, NULL, 0)
      it    == found.it
      head  == IF d.lru_cache = <<>> THEN NULL ELSE d.lru_cache[1]
  IN IF it # NULL /\ it = head THEN [d |-> d, frame |-> it, hit |-> TRUE]
     ELSE IF it # NULL
       THEN LET prev1 == IF d.next[it] # NULL
                           THEN [d.prev EXCEPT ![d.next[it]] = d.prev[it]]
                           ELSE d.prev
                next1 == [d.next EXCEPT ![found.owner] = d.next[it]]
                next2 == [next1 EXCEPT ![it] = head]
                prev2 == [[prev1 EXCEPT ![it] = NULL] EXCEPT ![head] = it]
            IN [d |-> [d EXCEPT !.next = next2, !.prev = prev2,
                                !.lru_cache = di_lru_list(next2, it)],
                frame |-> it, hit |-> TRUE]
     ELSE IF found.size < DI_LRU_SIZE
       THEN LET new   == Len(d.frame_pc) + 1
                next1 == Append(d.next, head)
                prev1 == IF head # NULL
                           THEN [Append(d.prev, NULL) EXCEPT ![head] = new]
                           ELSE Append(d.prev, NULL)
            IN [d |-> [d EXCEPT !.next = next1, !.prev = prev1,
                                !.lru_cache = di_lru_list(next1, new),
                                !.frame_pc = Append(d.frame_pc, pc)],
                frame |-> new, hit |-> FALSE]
     ELSE LET lru == found.owner
          IN [d |-> di_lru_evict(d, lru, head, pc),
              frame |-> lru, hit |-> FALSE]

\* debug_capture up to the call of _Unwind_Backtrace; a call made while a
\* capture is in progress returns an empty debug_info at once
debug_capture ==
  /\ IF dbg.in_progress
       THEN /\ dbg.nested < MaxNested
            /\ dbg' = [dbg EXCEPT !.nested = @ + 1]
       ELSE /\ dbg.captures < MaxCaptures
            /\ dbg' = [dbg EXCEPT !.in_progress = TRUE, !.unwinding = TRUE,
                                  !.frames = <<>>, !.ips = <<>>,
                                  !.skip = 1, !.cbs = 0, !.returned = FALSE]
  /\ UNCHANGED not_debug_vars

\* unwind_frame_iter, called by _Unwind_Backtrace for the next frame of the
\* stack; ip is the value of _Unwind_GetIPInfo after its adjustment
unwind_frame_iter(ip) ==
  /\ dbg.in_progress /\ dbg.unwinding /\ dbg.cbs < MaxUnwind
  /\ IF dbg.skip > 0
       THEN dbg' = [dbg EXCEPT !.skip = @ - 1, !.cbs = @ + 1]
     ELSE IF ip = 0
       THEN dbg' = [dbg EXCEPT !.cbs = @ + 1]
     ELSE LET got == di_lru_get(dbg, ip)
          IN dbg' = [got.d EXCEPT !.frames = Append(@, got.frame),
                                  !.ips = Append(@, ip),
                                  !.cbs = @ + 1,
                                  !.unwinding =
                                     symbol_of(got.d.frame_pc[got.frame]) # "main"]
  /\ UNCHANGED not_debug_vars

\* _Unwind_Backtrace returns, at the end of the stack or after
\* _URC_NORMAL_STOP, and debug_capture returns di
debug_capture_return ==
  /\ dbg.in_progress
  /\ dbg' = [dbg EXCEPT !.in_progress = FALSE, !.unwinding = FALSE,
                        !.captures = @ + 1, !.returned = TRUE]
  /\ UNCHANGED not_debug_vars

\* debug_symbol_name: a lookup of the same cache outside a capture
debug_symbol_name(addr) ==
  /\ ~dbg.in_progress /\ dbg.lookups < MaxLookups
  /\ dbg' = [di_lru_get(dbg, addr).d EXCEPT !.lookups = @ + 1, !.returned = FALSE]
  /\ UNCHANGED not_debug_vars

DebugIdle ==
  dbg = [lru_cache |-> <<>>, next |-> <<>>, prev |-> <<>>,
         frame_pc |-> <<>>, frames |-> <<>>, ips |-> <<>>,
         skip |-> 0, in_progress |-> FALSE, unwinding |-> FALSE,
         returned |-> FALSE, cbs |-> 0, captures |-> 0, nested |-> 0,
         lookups |-> 0]

\* ------------------------------------------------------------------------
\* server.c: the CXXRTL debug protocol over TCP
\*
\* A json_t object is a record of its members, "absent" for a member it does
\* not have; kind tells an object from what json_loads can also return, an
\* array or NULL.  cxxrtl.tx is the part of tx_buf between tx_rptr and
\* tx_wptr, one element per message written by cxxrtl_send.  Connections are
\* numbered in the order they are accepted: conn is the number of the latest,
\* tx_conn gives for each message of tx the connection it was written for,
\* and rx_part is the connection whose bytes lie in rx_buf between rx_rptr
\* and rx_wptr, 0 when there are none.

Absent == "absent"

supported_commands ==
  <<"list_scopes", "list_items", "reference_items", "query_interval",
    "get_simulation_status", "run_simulation", "pause_simulation",
    "nvc.quit_simulation">>

supported_events == <<"simulation_paused", "simulation_finished">>

CommandNames ==
  {supported_commands[i] : i \in 1..Len(supported_commands)}
    \cup {"greeting", "nvc.unknown"}

json_object(type, command, version) ==
  [kind |-> "object", type |-> type, command |-> command, version |-> version,
   error |-> Absent, message |-> Absent, status |-> Absent,
   commands |-> <<>>, events |-> <<>>, features |-> Absent]

\* the messages a client sends: version is "0", "1", a string that is no
\* number, or absent; command is a name, a value that is no string, or absent
Messages ==
  {json_object("greeting", Absent, v) : v \in {Absent, "0", "1", "zero"}}
    \cup {json_object("command", c, Absent) :
            c \in CommandNames \cup {Absent, "non_string"}}
    \cup {json_object(t, Absent, Absent) : t \in {Absent, "event"}}
    \cup {[json_object(Absent, Absent, Absent) EXCEPT !.kind = k] :
            k \in {"array", "null"}}

\* jansson: json_integer_value is 0 for a value that is no integer
json_integer_value(v) == IF v = "1" THEN 1 ELSE 0

\* cxxrtl_send: json_dumps of the value is appended to the tx buffer; for a
\* NULL value json_dumps returns NULL and strlen(NULL) is undefined: the
\* server faults, or goes on with nothing written
cxxrtl_send(c, json) ==
  IF json.kind = "null"
    THEN {[c EXCEPT !.crashed = TRUE], c}
    ELSE {[c EXCEPT !.tx = Append(@, json), !.tx_conn = Append(@, c.conn)]}

\* cxxrtl_error: json_object_set_new changes nothing unless json is an object
cxxrtl_error(c, json, error, message) ==
  cxxrtl_send(c, IF json.kind = "object"
                   THEN [json EXCEPT !.type = "error", !.error = error,
                                     !.message = message]
                   ELSE json)

handle_greeting(c, json) ==
  IF json.version = Absent
    THEN cxxrtl_error(c, json, "parse_error", "Missing version")
  ELSE IF json_integer_value(json.version) # 0
    THEN cxxrtl_error(c, json, "version_error", "Epected version 0")
  ELSE cxxrtl_send(c, [json EXCEPT !.commands = supported_commands,
                                   !.events = supported_events,
                                   !.features = "encoding"])

handle_get_simulation_status(c, json) ==
  cxxrtl_send(c, [json EXCEPT !.type = "response", !.status = "paused"])

handle_quit_simulation(c, json) ==
  cxxrtl_send([c EXCEPT !.shutdown = TRUE], [json EXCEPT !.type = "response"])

\* handle_command with run_simulation implemented as a command that ends the
\* simulation
handle_command_runs(c, json) ==
  IF json.command = Absent
    THEN cxxrtl_error(c, json, "parse_error", "Missing command")
  ELSE IF json.command = "get_simulation_status"
    THEN handle_get_simulation_status(c, json)
  ELSE IF json.command \in {"nvc.quit_simulation", "run_simulation"}
    THEN handle_quit_simulation(c, json)
  ELSE cxxrtl_error(c, json, "bad_command", "Invalid command")

\* handle_command: for a command that is no string json_string_value is NULL
\* and strcmp(NULL, ..) is undefined: the server faults, or any branch runs
handle_command(c, json) ==
  IF json.command = Absent
    THEN cxxrtl_error(c, json, "parse_error", "Missing command")
  ELSE IF json.command = "non_string"
    THEN {[c EXCEPT !.crashed = TRUE]}
           \cup handle_get_simulation_status(c, json)
           \cup handle_quit_simulation(c, json)
           \cup cxxrtl_error(c, json, "bad_command", "Invalid command")
  ELSE IF json.command = "get_simulation_status"
    THEN handle_get_simulation_status(c, json)
  ELSE IF json.command = "nvc.quit_simulation"
    THEN handle_quit_simulation(c, json)
  ELSE cxxrtl_error(c, json, "bad_command", "Invalid command")

\* kill_cxxrtl_connection: rx_rptr and rx_wptr are set to 0, tx_rptr and
\* tx_wptr are left as they are
kill_cxxrtl_connection(c) == [c EXCEPT !.sock = -1, !.rx_part = 0]

\* what the history fields keep of a server
server_state(c) == [sock |-> c.sock, shutdown |-> c.shutdown, tx |-> c.tx]

\* the body of the do-while loop of cxxrtl_read_message for one message; the
\* history fields keep the message, the state the handler started from and
\* the state it left
cxxrtl_dispatch(c, root) ==
  LET c0 == [c EXCEPT !.msg = root, !.handled = TRUE, !.before = server_state(c)]
      out == IF root.kind # "object"
               THEN cxxrtl_error(c0, root, "bad_json", "Nnot a JSON object")
             ELSE IF root.type = Absent
               THEN cxxrtl_error(c0, root, "parse_error", "Missing type field")
             ELSE IF root.type = "greeting" THEN handle_greeting(c0, root)
             ELSE IF root.type = "command" THEN handle_command(c0, root)
             ELSE {c0}
  IN {[c1 EXCEPT !.after = server_state(c1)] : c1 \in out}

\* cxxrtl_read_message: recv fails with EAGAIN, reports the end of the
\* stream or an error, delivers the beginning of a message without its
\* terminating NUL ("part"), or delivers what the client had still to send
\* of one message, NUL included ("msg").  json_loads reads from rx_rptr: when
\* the bytes there came from an earlier connection the text is theirs
\* followed by the message, which is no JSON value, and the result is NULL.
RecvResults ==
  {[kind |-> k, msg |-> json_object(Absent, Absent, Absent)] :
     k \in {"eagain", "eof", "err", "part"}}
    \cup {[kind |-> "msg", msg |-> m] : m \in Messages}

cxxrtl_read_message(c, recv) ==
  IF recv.kind = "eagain" THEN {c}
  ELSE IF recv.kind \in {"eof", "err"} THEN {kill_cxxrtl_connection(c)}
  ELSE IF recv.kind = "part"
    THEN {[c EXCEPT !.rx_part = IF @ = 0 THEN c.conn ELSE @]}
  ELSE IF c.rx_part \notin {0, c.conn}
    THEN cxxrtl_dispatch([c EXCEPT !.rx_part = 0, !.rx_old = TRUE],
                         [recv.msg EXCEPT !.kind = "null"])
  ELSE cxxrtl_dispatch([c EXCEPT !.rx_part = 0], recv.msg)

\* cxxrtl_flush: send takes the first sent messages, then takes all the
\* rest, returns 0, or fails
cxxrtl_flush(c, sent, fail) ==
  LET rest == [c EXCEPT !.tx = SubSeq(@, sent + 1, Len(@)),
                        !.tx_conn = SubSeq(@, sent + 1, Len(@)),
                        !.sent_old = @ \/ \E i \in 1..sent : c.tx_conn[i] # c.conn]
  IN IF sent < Len(c.tx) /\ fail THEN kill_cxxrtl_connection(rest) ELSE rest

\* accept, like socket, returns the lowest descriptor not in use; 0, 1 and 2
\* are the standard streams
accept_fd(used) ==
  CHOOSE fd \in 3..(MaxFd + 1) : fd \notin used /\ \A g \in 3..(fd - 1) : g \in used

\* cxxrtl_new_connection: the old socket is closed and replaced, and nothing
\* else of the server changes
cxxrtl_new_connection(c, fd) ==
  [c EXCEPT !.sock = fd, !.handled = FALSE, !.conn = @ + 1]

\* handle_new_connection of a CXXRTL server whose accept returns fd
handle_new_connection(fd) ==
  /\ ~cxxrtl.crashed
  /\ cxxrtl.conn < MaxConns
  /\ fd = accept_fd({cxxrtl.sock})
  /\ cxxrtl' = cxxrtl_new_connection(cxxrtl, fd)
  /\ UNCHANGED not_server_vars

\* cxxrtl_poll_sockets; rd and wr are FD_ISSET of rfd and wfd, recv is what
\* recv returns when the socket is read, and sends are the outcomes send can
\* have when the output is flushed.  When cxxrtl_read_message has closed the
\* connection the second test is FD_ISSET(-1, wfd), which is undefined: the
\* program is stopped there (a fortified FD_ISSET aborts), or it goes on
\* with the connection closed, whatever the bit read.
cxxrtl_poll_sockets(c, rd, wr, recv, sends) ==
  IF c.sock = -1 THEN {c}
  ELSE UNION {
         UNION {
           {IF ~c2.crashed /\ c2.shutdown /\ c2.tx = <<>>
              THEN [c2 EXCEPT !.sock = -1] ELSE c2} :
           c2 \in (IF c1.crashed THEN {c1}
                   ELSE IF c1.sock = -1 THEN {c1, [c1 EXCEPT !.crashed = TRUE]}
                   ELSE IF wr
                     THEN {cxxrtl_flush(c1, o.sent, o.fail) :
                             o \in {o \in sends : o.sent <= Len(c1.tx)}}
                     ELSE {c1})} :
         c1 \in (IF rd THEN cxxrtl_read_message([c EXCEPT !.handled = FALSE], recv)
                       ELSE {[c EXCEPT !.handled = FALSE]})}

\* what send does with the output: it takes some messages and then returns
\* 0 or fails, or it takes them all
Sends == [sent : 0..MaxTx, fail : BOOLEAN]

\* the call of proto->poll_sockets in an iteration of start_server whose
\* select reports the socket of a CXXRTL server; cxxrtl_fill_fd_set puts the
\* socket in wfd only when output is pending
poll_sockets(rd, wr, recv) ==
  /\ ~cxxrtl.crashed
  /\ cxxrtl.sock # -1
  /\ wr => cxxrtl.tx # <<>>
  /\ ~rd => recv.kind = "eagain"
  /\ (rd /\ recv.kind = "msg") => Len(cxxrtl.tx) < MaxTx
  /\ cxxrtl' \in cxxrtl_poll_sockets(cxxrtl, rd, wr, recv, Sends)
  /\ UNCHANGED not_server_vars

NoMsg == json_object(Absent, Absent, Absent)

\* cxxrtl_server_new
cxxrtl_server_new ==
  [sock |-> -1, shutdown |-> FALSE, tx |-> <<>>, crashed |-> FALSE,
   conn |-> 0, tx_conn |-> <<>>, rx_part |-> 0, sent_old |-> FALSE, rx_old |-> FALSE,
   msg |-> NoMsg, handled |-> FALSE,
   before |-> [sock |-> -1, shutdown |-> FALSE, tx |-> <<>>],
   after |-> [sock |-> -1, shutdown |-> FALSE, tx |-> <<>>]]

ServerIdle == cxxrtl = cxxrtl_server_new

\* ------------------------------------------------------------------------
\* parse_value, as test/test_value.c calls it: a string to a value of a type.
\* A string is a sequence of characters, a character a string of length one.

\* the scalar types the tests parse: INTEGER, an enumeration (A, B, C), a
\* subtype of it constrained to A .. B, and TIME
ValueTypes == {"integer", "enum", "subtype", "time"}

value_base_type(type) == IF type = "subtype" THEN "enum" ELSE type

enum_literals == <<"A", "B", "C">>

isspace(c) == c = " "

isdigit(c) == c \in {"0", "1", "2", "3", "4", "5", "6", "7", "8", "9"}

digit_value(c) ==
  CASE c = "0" -> 0 [] c = "1" -> 1 [] c = "2" -> 2 [] c = "3" -> 3
    [] c = "4" -> 4 [] c = "5" -> 5 [] c = "6" -> 6 [] c = "7" -> 7
    [] c = "8" -> 8 [] c = "9" -> 9

toupper(c) ==
  CASE c = "a" -> "A" [] c = "b" -> "B" [] c = "c" -> "C"
    [] c = "f" -> "F" [] c = "n" -> "N" [] c = "p" -> "P" [] c = "s" -> "S"
    [] OTHER -> c

\* femtoseconds in a unit of TIME, 0 for a name that is no unit
unit_scale(name) ==
  CASE name = <<"F", "S">> -> 1
    [] name = <<"P", "S">> -> 1000
    [] name = <<"N", "S">> -> 1000000
    [] OTHER -> 0

skip_space_none(s) == s

RECURSIVE skip_space(_)
skip_space(s) ==
  IF s # <<>> /\ isspace(Head(s)) THEN skip_space(Tail(s)) ELSE s

\* length of the longest prefix of s whose characters all satisfy Test
span(s, Test(_)) ==
  LET stop == {i \in 1..Len(s) : ~Test(s[i])}
  IN  IF stop = {} THEN Len(s)
      ELSE (CHOOSE i \in stop : \A j \in stop : i <= j) - 1

drop(s, n) == SubSeq(s, n + 1, Len(s))

\* the digits of a sequence as a number, every digit taken with the sign
RECURSIVE accumulate(_, _, _)
accumulate(digits, sign, sum) ==
  IF digits = <<>> THEN sum
  ELSE accumulate(Tail(digits), sign, sum * 10 + sign * digit_value(Head(digits)))

RECURSIVE pow10(_)
pow10(n) == IF n = 0 THEN 1 ELSE 10 * pow10(n - 1)

ParseFailed == [ok |-> FALSE, value |-> 0, rest |-> <<>>]

\* an optional minus sign, then digits and underscores, at least one digit
parse_integer(s) ==
  LET is_negative == s # <<>> /\ Head(s) = "-"
      body == IF is_negative THEN Tail(s) ELSE s
      n == span(body, LAMBDA c : isdigit(c) \/ c = "_")
      digits == SelectSeq(SubSeq(body, 1, n), isdigit)
  IN  IF digits = <<>> THEN ParseFailed
      ELSE [ok |-> TRUE,
            value |-> accumulate(digits, IF is_negative THEN -1 ELSE 1, 0),
            rest |-> drop(body, n)]

\* the word up to the next white space, in upper case, looked up among the
\* literals of the base type; the constraint of a subtype plays no part
parse_enum(s) ==
  LET n == span(s, LAMBDA c : ~isspace(c))
      word == [i \in 1..n |-> toupper(s[i])]
      pos == {i \in 1..Len(enum_literals) : word = <<enum_literals[i]>>}
  IN  IF pos = {} THEN ParseFailed
      ELSE [ok |-> TRUE, value |-> (CHOOSE i \in pos : TRUE) - 1, rest |-> drop(s, n)]

\* a number with an optional fraction, white space, then the name of a unit
parse_physical(s) ==
  LET n == span(s, isdigit)
      after_int == drop(s, n)
      has_frac == after_int # <<>> /\ Head(after_int) = "."
      f == IF has_frac THEN span(Tail(after_int), isdigit) ELSE 0
      after_num == IF has_frac THEN drop(after_int, f + 1) ELSE after_int
      mantissa == accumulate(SubSeq(s, 1, n) \o SubSeq(after_int, 2, f + 1), 1, 0)
      at_unit == skip_space(after_num)
      u == span(at_unit, LAMBDA c : ~isspace(c))
      scale == unit_scale([i \in 1..u |-> toupper(at_unit[i])])
  IN  IF n + f = 0 \/ u = 0 \/ scale = 0 \/ (mantissa * scale) % pow10(f) # 0
      THEN ParseFailed
      ELSE [ok |-> TRUE, value |-> (mantissa * scale) \div pow10(f), rest |-> drop(at_unit, u)]

\* leading white space is skipped, the value is read according to the base
\* type, and only white space may follow it
parse_value(type, str) ==
  LET s == skip_space(str)
      basek == value_base_type(type)
      r == CASE basek = "integer" -> parse_integer(s)
             [] basek = "enum" -> parse_enum(s)
             [] basek = "time" -> parse_physical(s)
  IN  IF r.ok /\ skip_space(r.rest) = <<>>
      THEN [ok |-> TRUE, value |-> r.value]
      ELSE [ok |-> FALSE, value |-> 0]

\* the strings the tests pass whose values fit the integers of the model
TestStrings ==
  { <<"0">>, <<"1">>, <<"-", "1">>,
    <<"-", "2", "1", "4", "7", "4", "8", "3", "6", "4", "8">>,
    <<" ", " ", "1", "4", "1", "2", "4", " ", " ">>,
    <<"1", "_", "2", "_", "3">>,
    <<"A">>, <<"b">>, <<" ", "C", " ", " ">>,
    <<"0", "p", "s">>, <<"2", ".", "5", " ", "n", "s">>,
    <<" ", "3", " ", " ", " ", "p", "s", " ">>, <<" ", "5">> }

MaxStrLen == 4

Chars == {" ", "-", "_", "1", "2", "C", "p", "s"}

Strings == UNION {[1..n -> Chars] : n \in 0..MaxStrLen} \cup TestStrings

NoResult == [ok |-> FALSE, value |-> 0]

ValueIdle == pv = [type |-> "integer", str |-> <<>>, done |-> FALSE, res |-> NoResult]

\* one call parse_value(t, str, &v) of a test
test_parse_value ==
  /\ ~pv.done
  /\ pv' = [pv EXCEPT !.done = TRUE, !.res = parse_value(pv.type, pv.str)]
  /\ UNCHANGED not_value_vars

\* ------------------------------------------------------------------------
\* util.c: filter_color
\*
\* A string is a sequence of characters, each a string of length one, "ESC"
\* standing for '\033'; the NUL that ends a C string is "NUL".  copy is the
\* memory from the pointer xmalloc returned on, as far as it was written:
\* copy[i + 1] is the byte at offset i, Unwritten where no byte was stored.

Unwritten == "unwritten"

\* escapes[]
escapes ==
  << [name |-> <<>>, value |-> 0],
     [name |-> <<"b", "o", "l", "d">>, value |-> 1],
     [name |-> <<"b", "l", "a", "c", "k">>, value |-> 30],
     [name |-> <<"r", "e", "d">>, value |-> 31],
     [name |-> <<"g", "r", "e", "e", "n">>, value |-> 32],
     [name |-> <<"y", "e", "l", "l", "o", "w">>, value |-> 33],
     [name |-> <<"b", "l", "u", "e">>, value |-> 34],
     [name |-> <<"m", "a", "g", "e", "n", "t", "a">>, value |-> 35],
     [name |-> <<"c", "y", "a", "n">>, value |-> 36],
     [name |-> <<"w", "h", "i", "t", "e">>, value |-> 37] >>

Digit(n) == <<"0", "1", "2", "3", "4", "5", "6", "7", "8", "9">>[n + 1]

\* "%d" of a value that is not negative
RECURSIVE fmt_d(_)
fmt_d(n) == IF n < 10 THEN <<Digit(n)>> ELSE Append(fmt_d(n \div 10), Digit(n % 10))

\* bytes stored at offset at of copy
store(copy, at, bytes) ==
  LET top == IF Len(copy) > at + Len(bytes) THEN Len(copy) ELSE at + Len(bytes)
  IN  [i \in 1..top |->
         IF i > at /\ i <= at + Len(bytes) THEN bytes[i - at]
         ELSE IF i <= Len(copy) THEN copy[i] ELSE Unwritten]

\* strncmp(e, name, len) == 0, e being the len characters between two '$',
\* none of them NUL: name starts with them
strncmp_eq(e, name) ==
  Len(e) <= Len(name) /\ SubSeq(name, 1, Len(e)) = e

\* the for loop over escapes: the index of the first name that matches, 0
\* when none does
RECURSIVE escape_found(_, _)
escape_found(e, i) ==
  IF i > Len(escapes) THEN 0
  ELSE IF strncmp_eq(e, escapes[i].name) THEN i
  ELSE escape_found(e, i + 1)

\* snprintf(p, size, "\033[%dm", value): the bytes it stores, a size_t size
\* of zero storing none and a negative difference being a huge size
snprintf_bytes(size, value) ==
  LET text == <<"ESC", "[">> \o fmt_d(value) \o <<"m">>
  IN  IF size = 0 THEN <<>>
      ELSE IF size < 0 \/ Len(text) < size THEN Append(text, "NUL")
      ELSE Append(SubSeq(text, 1, size - 1), "NUL")

\* snprintf returns the length of the whole text
snprintf_len(value) == Len(fmt_d(value)) + 3

\* strncpy(p, src, n) of the characters of str from position from on, the
\* NUL that ends str and NUL padding after it
strncpy_bytes(str, from, n) ==
  [i \in 1..n |-> IF from + i - 1 <= Len(str) THEN str[from + i - 1] ELSE "NUL"]

\* the while loop of filter_color from position i of str on; escape_start
\* is a position of str, 0 for NULL
RECURSIVE filter_color_loop(_, _, _, _)
filter_color_loop(str, i, st, colour) ==
  IF i > Len(str) THEN st
  ELSE IF str[i] = "$"
    THEN IF st.escape_start = 0
           THEN filter_color_loop(str, i + 1, [st EXCEPT !.escape_start = i], colour)
         ELSE
           LET e   == st.escape_start + 1
               len == i - e
           IN  IF colour
                 THEN LET found == escape_found(SubSeq(str, e, i - 1), 1)
                      IN  IF found # 0
                            THEN filter_color_loop(str, i + 1,
                                   [st EXCEPT
                                      !.copy = store(@, st.p,
                                                 snprintf_bytes(st.eptr - st.p,
                                                                escapes[found].value)),
                                      !.p = @ + snprintf_len(escapes[found].value),
                                      !.escape_start = 0], colour)
                          ELSE filter_color_loop(str, i + 1,
                                   [st EXCEPT
                                      !.copy = store(@, st.p,
                                                 strncpy_bytes(str, st.escape_start, len + 1)),
                                      !.p = @ + len + 1,
                                      !.escape_start = i], colour)
               ELSE filter_color_loop(str, i + 1, [st EXCEPT !.escape_start = 0], colour)
  ELSE IF st.escape_start = 0
    THEN filter_color_loop(str, i + 1,
           [st EXCEPT !.copy = store(@, st.p, <<str[i]>>), !.p = @ + 1], colour)
  ELSE filter_color_loop(str, i + 1, st, colour)

\* filter_color: maxlen is the size given to xmalloc, copy what was written
\* from the returned pointer on
filter_color(str, force_plain, want_color) ==
  LET maxlen == Len(str) * 2
      st  == filter_color_loop(str, 1,
               [copy |-> <<>>, p |-> 0, eptr |-> maxlen, escape_start |-> 0],
               want_color /\ ~force_plain)
      st2 == IF st.escape_start # 0
               THEN LET len == Len(str) + 1 - st.escape_start
                    IN  [st EXCEPT
                           !.copy = store(@, st.p,
                                      strncpy_bytes(str, st.escape_start, len + 1)),
                           !.p = @ + len + 1]
               ELSE st
  IN  [maxlen |-> maxlen, copy |-> store(st2.copy, st2.p, <<"NUL">>), p |-> st2.p]

\* the characters of the strings filtered: '$', letters that start or
\* continue a colour name, and one that is in no name
ColorChars == {"$", "r", "e", "x"}

MaxColorStr == 4

ColorStrings == UNION {[1..n -> ColorChars] : n \in 0..MaxColorStr}

NoCopy == [maxlen |-> 0, copy |-> <<>>, p |-> 0]

ColorIdle ==
  fc = [str |-> <<>>, force_plain |-> FALSE, want_color |-> FALSE,
        done |-> FALSE, res |-> NoCopy]

\* prepare_msg or paginate_msg calls filter_color on the message
prepare_msg ==
  /\ ~fc.done
  /\ fc' = [fc EXCEPT !.done = TRUE,
                      !.res = filter_color(fc.str, fc.force_plain, fc.want_color)]
  /\ UNCHANGED not_color_vars

\* ------------------------------------------------------------------------
\* server.c: the WebSocket wrapper
\*
\* A byte is a number in 0..255.  rx_buf is a sequence, rx_buf[i + 1] being
\* the byte at offset i, the offsets rx_rptr and rx_wptr counting from 0 as
\* in the code.  It has RxSize bytes, more than the client ever sends here,
\* so that the xrealloc of ws_poll is left out; tx is the part of tx_buf
\* between tx_rptr and tx_wptr.

WS_OPCODE_TEXT_FRAME == 1
WS_OPCODE_BINARY_FRAME == 2
WS_OPCODE_CLOSE_FRAME == 8
WS_OPCODE_PING_FRAME == 9
WS_OPCODE_PONG_FRAME == 10

\* the client to server opcode handle_binary_frame tests the first byte for
C2S_SHUTDOWN == 0

RxSize == 24

RECURSIVE xor_bits(_, _, _)
xor_bits(a, b, n) ==
  IF n = 0 THEN 0 ELSE ((a + b) % 2) + 2 * xor_bits(a \div 2, b \div 2, n - 1)

RECURSIVE or_bits(_, _, _)
or_bits(a, b, n) ==
  IF n = 0 THEN 0
  ELSE (IF (a % 2) + (b % 2) > 0 THEN 1 ELSE 0) + 2 * or_bits(a \div 2, b \div 2, n - 1)

\* a | b on uint8_t
or8(a, b) == or_bits(a, b, 8)

\* a ^ b on uint8_t
xor8(a, b) == xor_bits(a, b, 8)

UINT16_MAX == 65535

\* PACK_BE16, PACK_BE32 and PACK_BE64: the k bytes of n, most significant first
RECURSIVE pack_be(_, _)
pack_be(n, k) == IF k = 0 THEN <<>> ELSE Append(pack_be(n \div 256, k - 1), n % 256)

\* UNPACK_BE16 and UNPACK_BE64 on the k bytes from offset at of buf on
RECURSIVE unpack_be(_, _, _)
unpack_be(buf, at, k) ==
  IF k = 0 THEN 0 ELSE 256 * unpack_be(buf, at, k - 1) + buf[at + k]

\* the bytes ws_send queues for one frame: header, extended length, masking
\* key, payload
ws_frame(opcode, mask, masks, data) ==
  LET size  == Len(data)
      size0 == IF size < 126 THEN size ELSE IF size <= UINT16_MAX THEN 126 ELSE 127
  IN
  <<128 + opcode, (IF mask THEN 128 ELSE 0) + (size0 % 128)>>
    \o (IF size0 = 126 THEN pack_be(size, 2)
        ELSE IF size0 = 127 THEN pack_be(size, 8) ELSE <<>>)
    \o (IF mask THEN masks ELSE <<>>)
    \o [i \in 1..Len(data) |->
          IF mask THEN xor8(data[i], masks[((i - 1) % 4) + 1]) ELSE data[i]]

\* ws_send and ws_queue_buf; the server's sockets are made with mask false
ws_send(w, opcode, data) ==
  [w EXCEPT !.tx = @ \o ws_frame(opcode, w.mask, <<0, 0, 0, 0>>, data)]

\* ws_new, with the handlers open_websocket installs; log is the history of
\* the frames ws_poll has handled, shutdown is server->shutdown, which the
\* handlers reach through handler.context.  A web_socket_t with sock = -1
\* stands for http->websocket == NULL.
ws_new(sock, mask) ==
  [sock |-> sock, mask |-> mask, closing |-> FALSE, tx |-> <<>>,
   rx_buf |-> [i \in 1..RxSize |-> 0], rx_rptr |-> 0, rx_wptr |-> 0,
   log |-> <<>>, shutdown |-> FALSE, crashed |-> FALSE]

ws_logged(w, opcode, payload) ==
  [w EXCEPT !.log = Append(@, [opcode |-> opcode, payload |-> payload])]

\* handle_text_frame: shell_eval gives an empty result, or one that is sent
\* back as a text frame
handle_text_frame(w, text) ==
  LET w1 == ws_logged(w, WS_OPCODE_TEXT_FRAME, text)
  IN  {w1, ws_send(w1, WS_OPCODE_TEXT_FRAME, <<82>>)}

handle_binary_frame(w, data) ==
  LET w1 == ws_logged(w, WS_OPCODE_BINARY_FRAME, data)
  IN  IF Len(data) = 0 THEN w1
      ELSE IF data[1] = C2S_SHUTDOWN THEN [w1 EXCEPT !.shutdown = TRUE]
      ELSE w1

\* the switch of ws_poll on a frame whose payload lies at offset at of
\* rx_buf and the flength bytes after it; the text frame case writes the
\* terminating NUL behind the payload first
ws_switch(w, opcode, at, flength) ==
  LET terminated == [w EXCEPT !.rx_buf[at + flength + 1] = 0]
      payload(v) == SubSeq(v.rx_buf, at + 1, at + flength)
  IN  CASE opcode = WS_OPCODE_TEXT_FRAME ->
             handle_text_frame(terminated, payload(terminated))
        [] opcode = WS_OPCODE_BINARY_FRAME ->
             {handle_binary_frame(w, payload(w))}
        [] opcode = WS_OPCODE_CLOSE_FRAME ->
             {[ws_logged(w, opcode, payload(w)) EXCEPT !.closing = TRUE]}
        [] opcode = WS_OPCODE_PING_FRAME ->
             {ws_send(ws_logged(w, opcode, payload(w)), WS_OPCODE_PONG_FRAME, payload(w))}
        [] opcode = WS_OPCODE_PONG_FRAME ->
             {ws_logged(w, opcode, payload(w))}
        [] OTHER ->
             {[w EXCEPT !.crashed = TRUE], w}

\* the do-while loop of ws_poll from the frame at rx_rptr on; "goto
\* read_more" ends it here, the recv that follows being the recv of the next
\* ws_poll.  assert(fin) and the fatal_trace of the default case stop the
\* program in a build that has them and do nothing in one that has not.
RECURSIVE ws_frames(_)
ws_frames(w) ==
  LET rbytes == w.rx_wptr - w.rx_rptr
      fin == w.rx_buf[w.rx_rptr + 1] >= 128
      opcode == w.rx_buf[w.rx_rptr + 1] % 16
      mask == w.rx_buf[w.rx_rptr + 2] >= 128
      size0 == w.rx_buf[w.rx_rptr + 2] % 128
      headersz == 2 + (IF mask THEN 4 ELSE 0)
                    + (IF size0 = 126 THEN 2 ELSE IF size0 = 127 THEN 8 ELSE 0)
      flength == IF size0 = 127 THEN unpack_be(w.rx_buf, w.rx_rptr + 2, 8)
                 ELSE IF size0 = 126 THEN unpack_be(w.rx_buf, w.rx_rptr + 2, 2)
                 ELSE size0
      at == w.rx_rptr + headersz
      unmasked ==
        IF mask
        THEN [w EXCEPT !.rx_buf =
                SubSeq(@, 1, at)
                  \o [i \in 1..flength |->
                        xor8(@[at + i], @[at - 4 + ((i - 1) % 4) + 1])]
                  \o SubSeq(@, at + flength + 1, Len(@))]
        ELSE w
      advance(v) ==
        LET v1 == [v EXCEPT !.rx_rptr = @ + flength + headersz]
        IN  IF v1.crashed THEN {v1}
            ELSE IF v1.rx_rptr < v1.rx_wptr THEN ws_frames(v1)
            ELSE {[v1 EXCEPT !.rx_rptr = 0, !.rx_wptr = 0]}
  IN  IF rbytes < 2 THEN {w}
      ELSE IF rbytes < headersz \/ rbytes < flength + headersz THEN {w}
      ELSE (IF fin THEN {} ELSE {[w EXCEPT !.crashed = TRUE]})
             \cup UNION {advance(v) : v \in ws_switch(unmasked, opcode, at, flength)}

\* ws_poll on a socket whose recv fails with EAGAIN, reports the end of the
\* stream or an error, or delivers bytes
ws_poll(w, kind, bytes) ==
  IF kind = "eagain" THEN {w}
  ELSE IF kind \in {"eof", "err"} THEN {[w EXCEPT !.closing = TRUE]}
  ELSE ws_frames([w EXCEPT
         !.rx_buf = SubSeq(@, 1, w.rx_wptr) \o bytes
                      \o SubSeq(@, w.rx_wptr + Len(bytes) + 1, Len(@)),
         !.rx_wptr = @ + Len(bytes)])

\* ws_flush: send takes the first sent bytes, then takes all the rest,
\* returns 0, or fails
ws_flush(w, sent, fail) ==
  LET rest == [w EXCEPT !.tx = SubSeq(@, sent + 1, Len(@))]
  IN  IF sent < Len(w.tx) /\ fail THEN [rest EXCEPT !.closing = TRUE] ELSE rest

\* ------------------------------------------------------------------------
\* server.c: the transmit buffer of the WebSocket wrapper with its pointers
\*
\* tx_buf holds the bytes written so far, tx_buf[i + 1] being the byte at
\* offset i of the allocation; the bytes from tx_wptr on are never read and
\* are left out.  queued is the history of the frames ws_send was asked to
\* queue and taken the history of the bytes send() accepted; sends and
\* flushes count the calls, and overrun tells that a memcpy went beyond
\* tx_size.

TX_MIN_SIZE == 1024
XORD_SIZE == 128

MAX(a, b) == IF a > b THEN a ELSE b
MIN(a, b) == IF a < b THEN a ELSE b

tx_new(mask) ==
  [mask |-> mask, closing |-> FALSE, tx_size |-> 0, tx_wptr |-> 0, tx_rptr |-> 0,
   tx_buf |-> <<>>, queued |-> <<>>, taken |-> <<>>, sends |-> 0, flushes |-> 0,
   overrun |-> FALSE]

ws_queue_buf(t, data) ==
  LET size == Len(data)
      t1 == IF t.tx_wptr + size > t.tx_size
            THEN [t EXCEPT !.tx_size = MAX(t.tx_size + size, TX_MIN_SIZE)] ELSE t
  IN  [t1 EXCEPT !.tx_buf = SubSeq(@, 1, t.tx_wptr) \o data,
                 !.tx_wptr = @ + size,
                 !.overrun = @ \/ t.tx_wptr + size > t1.tx_size]

\* ws_send lines 194-200: the payload is masked and queued in chunks of
\* sizeof(xord) bytes, i being the offset of the chunk
RECURSIVE ws_send_chunks(_, _, _, _)
ws_send_chunks(t, masks, data, i) ==
  IF i >= Len(data) THEN t
  ELSE LET chunksz == MIN(XORD_SIZE, Len(data) - i)
           xord == [j \in 1..chunksz |->
                      xor8(data[i + j], masks[((i + j - 1) % 4) + 1])]
       IN  ws_send_chunks(ws_queue_buf(t, xord), masks, data, i + XORD_SIZE)

\* ws_send, one ws_queue_buf call after the other; masks is PACK_BE32(rand())
ws_send_queue(t, opcode, masks, data) ==
  LET size  == Len(data)
      size0 == IF size < 126 THEN size ELSE IF size <= UINT16_MAX THEN 126 ELSE 127
      t1 == ws_queue_buf(t, <<128 + opcode, (IF t.mask THEN 128 ELSE 0) + (size0 % 128)>>)
      t2 == IF size0 = 126 THEN ws_queue_buf(t1, pack_be(size, 2))
            ELSE IF size0 = 127 THEN ws_queue_buf(t1, pack_be(size, 8))
            ELSE t1
      t3 == IF t.mask THEN ws_send_chunks(ws_queue_buf(t2, masks), masks, data, 0)
            ELSE IF size > 0 THEN ws_queue_buf(t2, data)
            ELSE t2
  IN  [t3 EXCEPT !.queued = @ \o ws_frame(opcode, t.mask, masks, data),
                 !.sends = @ + 1]

\* the while loop of ws_flush; results are what the next calls of send()
\* return when asked for more than that: a number of bytes taken, 0, or -1,
\* and once they are used up send() takes all it is given
RECURSIVE ws_flush_loop(_, _)
ws_flush_loop(t, results) ==
  IF t.tx_wptr = t.tx_rptr THEN t
  ELSE LET chunksz == t.tx_wptr - t.tx_rptr
           nbytes == IF results = <<>> THEN chunksz ELSE MIN(results[1], chunksz)
       IN  IF nbytes = 0 THEN t
           ELSE IF nbytes < 0 THEN [t EXCEPT !.closing = TRUE]
           ELSE ws_flush_loop(
                  [t EXCEPT !.taken = @ \o SubSeq(t.tx_buf, t.tx_rptr + 1,
                                                  t.tx_rptr + nbytes),
                            !.tx_rptr = @ + nbytes],
                  IF results = <<>> THEN <<>> ELSE Tail(results))

\* ws_flush that rewinds the pointers whatever is left in the buffer
ws_flush_tx_rewind(t, results) ==
  [ws_flush_loop(t, results) EXCEPT !.tx_rptr = 0, !.tx_wptr = 0, !.flushes = @ + 1]

\* ws_flush on the buffer's pointers
ws_flush_tx(t, results) ==
  LET t1 == ws_flush_loop(t, results)
      t2 == IF t1.tx_wptr = t1.tx_rptr THEN [t1 EXCEPT !.tx_rptr = 0, !.tx_wptr = 0]
            ELSE t1
  IN  [t2 EXCEPT !.flushes = @ + 1]

\* the calls made on the socket: ws_send_binary, ws_send_text and
\* ws_send_close with these payloads, the long one taking the two byte
\* extended length and five chunks when masked
MaxSends == 3
MaxFlushes == 3
LongSize == 600
LongPayload == [i \in 1..LongSize |-> i % 256]
TxCalls ==
  {[opcode |-> WS_OPCODE_BINARY_FRAME, data |-> <<>>],
   [opcode |-> WS_OPCODE_BINARY_FRAME, data |-> LongPayload],
   [opcode |-> WS_OPCODE_TEXT_FRAME, data |-> <<82, 83>>],
   [opcode |-> WS_OPCODE_CLOSE_FRAME, data |-> <<>>]}
TxMasks == {<<18, 52, 86, 120>>, <<255, 0, 129, 7>>}
SendResults == {-1, 0, 1, LongSize}

ws_send_call(call, masks) ==
  /\ ~wtx.closing /\ wtx.sends < MaxSends
  /\ wtx.mask \/ masks = <<18, 52, 86, 120>>
  /\ wtx' = ws_send_queue(wtx, call.opcode, masks, call.data)
  /\ UNCHANGED not_tx_vars

ws_flush_call(results) ==
  /\ ~wtx.closing /\ wtx.flushes < MaxFlushes
  /\ wtx' = ws_flush_tx(wtx, results)
  /\ UNCHANGED not_tx_vars

TxIdle == wtx = tx_new(FALSE)

\* ------------------------------------------------------------------------
\* the frames a client sends: every opcode, masked or not, and these payloads
MaxFrames == 2

ClientMasks == <<1, 2, 3, 4>>

ClientPayloads == {<<>>, <<C2S_SHUTDOWN>>, <<65, 66>>}

ClientFrames ==
  [opcode : {WS_OPCODE_TEXT_FRAME, WS_OPCODE_BINARY_FRAME, WS_OPCODE_CLOSE_FRAME,
             WS_OPCODE_PING_FRAME, WS_OPCODE_PONG_FRAME},
   mask : BOOLEAN, payload : ClientPayloads]

RECURSIVE wire_of(_)
wire_of(frames) ==
  IF frames = <<>> THEN <<>>
  ELSE ws_frame(frames[1].opcode, frames[1].mask, ClientMasks, frames[1].payload)
         \o wire_of(Tail(frames))

\* ws_poll called on the socket: recv delivers the next n bytes the client
\* has sent, and fails with EAGAIN or reports the end when there are none
ws_poll_socket(n, kind) ==
  /\ ~ws.crashed /\ ~ws.closing
  /\ (n = 0) = (kind # "data")
  /\ n <= Len(ws_client.wire)
  /\ ws' \in ws_poll(ws, kind, SubSeq(ws_client.wire, 1, n))
  /\ ws_client' = [ws_client EXCEPT
                     !.wire = SubSeq(@, n + 1, Len(@)),
                     !.reads = IF n > 0 THEN @ + 1 ELSE @]
  /\ UNCHANGED not_ws_vars

\* ws_flush called on the socket
ws_flush_socket(sent, fail) ==
  /\ ~ws.crashed /\ ~ws.closing
  /\ ws.tx # <<>>
  /\ sent <= Len(ws.tx)
  /\ ws' = ws_flush(ws, sent, fail)
  /\ UNCHANGED ws_client
  /\ UNCHANGED not_ws_vars

\* the frames of every opcode ws_send is called with, masked or not, with
\* payloads on both sides of the two thresholds of the length encoding; text
\* payloads are C strings (ws_send_text takes strlen) and have no NUL
PayloadSizes == {0, 1, 125, 126}
LargePayloadSizes == {UINT16_MAX, UINT16_MAX + 1}

payload_of(opcode, size) ==
  <<>> \o [i \in 1..size |->
            IF opcode = WS_OPCODE_TEXT_FRAME THEN (i % 255) + 1 ELSE i % 256]

WireFrames ==
  {[opcode |-> o, mask |-> m, payload |-> payload_of(o, n)] :
     o \in {WS_OPCODE_TEXT_FRAME, WS_OPCODE_BINARY_FRAME, WS_OPCODE_PING_FRAME,
            WS_OPCODE_PONG_FRAME},
     m \in BOOLEAN, n \in PayloadSizes}
  \cup {[opcode |-> WS_OPCODE_CLOSE_FRAME, mask |-> m, payload |-> <<>>] : m \in BOOLEAN}
  \cup {[opcode |-> o, mask |-> m, payload |-> payload_of(o, n)] :
          o \in {WS_OPCODE_TEXT_FRAME, WS_OPCODE_BINARY_FRAME},
          m \in BOOLEAN, n \in LargePayloadSizes}

\* the sizes of the reads a frame is split into, and how many such reads
\* come before the read that delivers the rest
SplitSizes == {1, 2, 3, 5, 7, 130}
MaxSplits == 2

\* ws_poll called when recv delivers the next n bytes of the frame, or all
\* that is left of it
ws_poll_split(n) ==
  /\ n < Len(ws_client.wire) /\ ws_client.reads < MaxSplits
  /\ ws_poll_socket(n, "data")

ws_poll_rest ==
  /\ ws_client.wire # <<>>
  /\ ws_poll_socket(Len(ws_client.wire), "data")

WsIdle == ws = ws_new(-1, FALSE) /\ ws_client = [wire |-> <<>>, frames |-> <<>>, reads |-> 0]

\* ------------------------------------------------------------------------
\* server.c: start_server
\*
\* srv.sock is the listening socket; the protocol's part of the server is ws
\* for SERVER_HTTP and cxxrtl for SERVER_CXXRTL, and server->shutdown is
\* their field shutdown.  srv.pc is "loop" inside for (;;) and "done" after
\* the function has returned; srv.asserts tells whether the assertions
\* passed on the way out hold.

ServerKinds == {"SERVER_HTTP", "SERVER_CXXRTL"}

not_net_vars == <<hash_vars, chash_vars, vcd_vars, type_vars, layout_vars, diag_vars, reader_vars, debug_vars, value_vars, tx_vars, color_vars>>

\* the packet open_websocket sends for init_cmd, as one byte
InitCmdPacket == <<73>>

\* http_fill_fd_set that gives -1 whenever no output is pending
http_fill_fd_set_idle(w) == IF w.tx = <<>> THEN -1 ELSE w.sock

http_fill_fd_set(w) == IF w.sock = -1 THEN -1 ELSE w.sock

cxxrtl_fill_fd_set(c) == c.sock

\* max_fd of an iteration
max_fd(s, w, c) ==
  LET proto_max == IF s.kind = "SERVER_HTTP"
                     THEN http_fill_fd_set(w) ELSE cxxrtl_fill_fd_set(c)
  IN  IF s.sock > proto_max THEN s.sock ELSE proto_max

\* kill_http_connection: the web_socket_t is freed
kill_http_connection(w) == [ws_new(-1, FALSE) EXCEPT !.shutdown = w.shutdown]

\* open_websocket: an existing connection is sent a close frame and killed
open_websocket(w, fd, init_cmd) ==
  LET fresh == [ws_new(fd, FALSE) EXCEPT !.shutdown = w.shutdown]
  IN  IF init_cmd THEN ws_send(fresh, WS_OPCODE_BINARY_FRAME, InitCmdPacket)
      ELSE fresh

http_poll_sockets(w, rd, wr, kind, bytes, sent, fail) ==
  IF w.sock = -1 THEN {w}
  ELSE {IF w1.crashed THEN w1
        ELSE LET w2 == IF wr THEN ws_flush(w1, sent, fail) ELSE w1
             IN  IF w2.closing THEN kill_http_connection(w2) ELSE w2 :
          w1 \in (IF rd THEN ws_poll(w, kind, bytes) ELSE {w})}

\* http_shutdown
http_shutdown(w) ==
  IF w.sock # -1 THEN ws_send(w, WS_OPCODE_CLOSE_FRAME, <<>>) ELSE w

\* what the clients of start_server send
LoopFrames ==
  {[opcode |-> WS_OPCODE_BINARY_FRAME, mask |-> TRUE, payload |-> <<C2S_SHUTDOWN>>],
   [opcode |-> WS_OPCODE_CLOSE_FRAME, mask |-> TRUE, payload |-> <<>>],
   [opcode |-> WS_OPCODE_TEXT_FRAME, mask |-> TRUE, payload |-> <<65, 66>>]}

LoopRecv ==
  {r \in RecvResults :
     \/ r.kind \in {"eagain", "eof"}
     \/ /\ r.kind = "msg"
        /\ r.msg \in {json_object("greeting", Absent, "0"),
                      json_object("command", "nvc.quit_simulation", Absent),
                      json_object("command", "get_simulation_status", Absent)}}

Quiet == [kind |-> "eagain", msg |-> json_object(Absent, Absent, Absent)]

\* one iteration of the loop of an HTTP server that does not leave it.
\* newconn: select reports the listening socket and the request accepted is
\* a WebSocket upgrade (any other request is answered and closed); rd and wr:
\* select reports the connection's socket in rfd and wfd, which cannot be
\* the socket of a connection opened in this iteration.
start_server_http(newconn, rd, wr, kind, frame, sent, fail) ==
  /\ srv.kind = "SERVER_HTTP" /\ srv.pc = "loop" /\ ~ws.crashed
  /\ max_fd(srv, ws, cxxrtl) # -1
  /\ newconn => srv.sock # -1
  /\ rd => (ws.sock # -1 /\ ~newconn)
  /\ ~rd => kind = "eagain"
  /\ (rd /\ kind = "data") => Len(ws.log) < MaxFrames
  /\ wr => (ws.sock # -1 /\ ws.tx # <<>> /\ ~newconn)
  /\ ~wr => (sent = 0 /\ ~fail)
  /\ sent <= Len(ws.tx)
  /\ LET w1 == IF newconn
                 THEN open_websocket(ws, accept_fd({srv.sock, ws.sock}), srv.init_cmd)
                 ELSE ws
     IN  \E w2 \in http_poll_sockets(w1, rd, wr, kind, wire_of(<<frame>>), sent, fail) :
           IF ~w2.crashed /\ w2.shutdown /\ srv.sock # -1
             THEN ws' = http_shutdown(w2) /\ srv' = [srv EXCEPT !.sock = -1]
             ELSE ws' = w2 /\ UNCHANGED srv
  /\ UNCHANGED <<not_net_vars, ws_client, cxxrtl>>

\* one iteration of the loop of a CXXRTL server that does not leave it
start_server_cxxrtl(newconn, rd, wr, recv, sent, fail) ==
  /\ srv.kind = "SERVER_CXXRTL" /\ srv.pc = "loop" /\ ~cxxrtl.crashed /\ ~srv.crashed
  /\ max_fd(srv, ws, cxxrtl) # -1
  /\ newconn => (srv.sock # -1 /\ cxxrtl.conn < MaxConns)
  /\ rd => (cxxrtl.sock # -1 /\ ~newconn)
  /\ ~rd => recv.kind = "eagain"
  /\ (rd /\ recv.kind = "msg") => Len(cxxrtl.tx) < MaxTx
  /\ wr => (cxxrtl.sock # -1 /\ cxxrtl.tx # <<>> /\ ~newconn)
  /\ ~wr => (sent = 0 /\ ~fail)
  /\ LET c1 == IF newconn
                 THEN cxxrtl_new_connection(cxxrtl, accept_fd({srv.sock, cxxrtl.sock}))
                 ELSE cxxrtl
     IN  \E c2 \in cxxrtl_poll_sockets(c1, rd, wr, recv, {[sent |-> sent, fail |-> fail]}) :
           /\ cxxrtl' = c2
           /\ srv' = IF ~c2.crashed /\ c2.shutdown /\ srv.sock # -1
                       THEN [srv EXCEPT !.sock = -1] ELSE srv
  /\ UNCHANGED <<not_net_vars, ws_vars>>

\* cxxrtl_fill_fd_set of a server without a connection whose tx buffer is
\* not empty: FD_SET(-1, wfd) is undefined, and the program faults here or
\* goes on as the two actions around this one say
start_server_fd_set_fault ==
  /\ srv.kind = "SERVER_CXXRTL" /\ srv.pc = "loop" /\ ~cxxrtl.crashed /\ ~srv.crashed
  /\ cxxrtl.sock = -1 /\ cxxrtl.tx # <<>>
  /\ srv' = [srv EXCEPT !.crashed = TRUE]
  /\ UNCHANGED <<not_net_vars, ws_vars, cxxrtl>>

\* the iteration that leaves the loop, and the rest of start_server with
\* free_server: assert(server->sock == -1), then assert(http->websocket ==
\* NULL) or assert(cxxrtl->sock == -1)
start_server_break ==
  /\ srv.pc = "loop" /\ ~ws.crashed /\ ~cxxrtl.crashed /\ ~srv.crashed
  /\ max_fd(srv, ws, cxxrtl) = -1
  /\ srv' = [srv EXCEPT !.pc = "done",
                        !.asserts = /\ srv.sock = -1
                                    /\ IF srv.kind = "SERVER_HTTP"
                                         THEN ws.sock = -1 ELSE cxxrtl.sock = -1]
  /\ UNCHANGED <<not_net_vars, ws_vars, cxxrtl>>

\* start_server up to the loop: new_server and open_server_socket
start_server(kind, init_cmd) ==
  [kind |-> kind, sock |-> accept_fd({}), init_cmd |-> init_cmd,
   pc |-> "loop", asserts |-> TRUE, crashed |-> FALSE]

LoopIdle == srv = [start_server("SERVER_CXXRTL", FALSE) EXCEPT !.sock = -1, !.pc = "idle"]

\* ------------------------------------------------------------------------
\* Initial conditions, next-state relations and specifications



HashIdle ==
  /\ tbl = "none"
  /\ h = hash_new(1) /\ sh = shash_new(1) /\ ih = ihash_new(1, 0, NULL)
  /\ hs = hset_new(1) /\ gh = ghash_new(1)
  /\ ht_hung = FALSE /\ ht_puts = 0 /\ ht_ref = NoRef

VcdIdle ==
  /\ vcd_out = <<>> /\ last_time = UINT64_MAX
  /\ vcd_fmt = [d \in Sigs |-> TRUE] /\ vcd_key = [d \in Sigs |-> -1]
  /\ vcd_now = 0 /\ vcd_cbs = 0 /\ vcd_runs = 0

TypeIdle == types = <<>> /\ frozen = FALSE

\* the caches are made by hash_new(256); they never hold more than MaxTypes
\* keys and are given CacheSize slots here
CacheSize == 8

LayoutIdle ==
  /\ layouts = <<>>
  /\ layout_cache = hash_new(CacheSize) /\ signal_cache = hash_new(CacheSize)
  /\ lo_last = [fn |-> "none", type |-> NULL, l |-> NULL]
  /\ lo_first = [fn \in LayoutFns |-> [t \in 1..MaxTypes |-> [l |-> NULL, val |-> NoLayout]]]
  /\ lo_calls = 0

DiagIdle ==
  /\ hints = <<>> /\ n_errors = 0 /\ unit_test = 0
  /\ diag_log = [calls |-> 0, errs |-> 0, others |-> 0, seq |-> 0,
                 last |-> [op |-> "none", queued |-> <<>>, out |-> <<>>]]

InitHash ==
  /\ mix \in [Keys -> MixRange]
  /\ tbl \in TableKinds
  /\ \E n \in 1..MaxNewSize :
       /\ h  = hash_new(IF tbl = "hash" THEN n ELSE 1)
       /\ sh = shash_new(IF tbl = "shash" THEN n ELSE 1)
       /\ hs = hset_new(IF tbl = "hset" THEN n ELSE 1)
       /\ gh = ghash_new(IF tbl = "ghash" THEN n ELSE 1)
       /\ \E ck \in IKeys, cv \in {NULL} \cup Vals :
            ih = IF tbl = "ihash" THEN ihash_new(n, ck, cv) ELSE ihash_new(1, 0, NULL)
  /\ ht_hung = FALSE
  /\ ht_puts = 0
  /\ ht_ref = NoRef
  /\ ChashIdle
  /\ VcdIdle
  /\ TypeIdle
  /\ LayoutIdle
  /\ DebugIdle
  /\ ServerIdle
  /\ ColorIdle
  /\ TxIdle
  /\ LoopIdle
  /\ WsIdle
  /\ ValueIdle
  /\ DiagIdle

InitChash ==
  /\ mix \in [Keys -> 0..(ChashSize - 1)]
  /\ HashIdle
  /\ ChashIdle
  /\ VcdIdle
  /\ TypeIdle
  /\ LayoutIdle
  /\ DebugIdle
  /\ ServerIdle
  /\ ColorIdle
  /\ TxIdle
  /\ LoopIdle
  /\ WsIdle
  /\ ValueIdle
  /\ DiagIdle

NextChash ==
  \/ \E t \in Threads, key \in Keys, value \in Vals : chash_put_begin(t, key, value)
  \/ \E t \in Threads : chash_put_walk(t)
  \/ \E t \in Threads : chash_put_store(t)
  \/ \E t \in Threads : chash_put_cas(t)

SpecChash == InitChash /\ [][NextChash]_vars

\* a step inside a chash_put call of thread t
chash_put_step(t) ==
  \/ chash_put_walk(t)
  \/ chash_put_store(t)
  \/ chash_put_cas(t)

\* the keys of the contended runs: they share one chain
LiveKeys == 1..2

InitChashLive ==
  /\ mix = [k \in Keys |-> 0]
  /\ HashIdle
  /\ ChashIdle
  /\ VcdIdle
  /\ TypeIdle
  /\ LayoutIdle
  /\ DebugIdle
  /\ ServerIdle
  /\ ColorIdle
  /\ TxIdle
  /\ LoopIdle
  /\ WsIdle
  /\ ValueIdle
  /\ DiagIdle

\* writers and a reader at work on the map at the same time
NextChashLive ==
  \/ \E t \in Threads, key \in LiveKeys : chash_put_begin(t, key, 1)
  \/ \E t \in Threads : chash_put_walk(t)
  \/ \E t \in Threads : chash_put_store(t)
  \/ \E t \in Threads : chash_put_cas(t)
  \/ \E key \in LiveKeys : chash_get_begin(key)
  \/ chash_get_walk
  \/ chash_get_value

\* the threads inside a call keep being scheduled: some writer inside
\* chash_put takes a step, and so does the reader inside chash_get
SpecChashLive ==
  /\ InitChashLive
  /\ [][NextChashLive]_vars
  /\ WF_vars(\E t \in Threads : chash_put_step(t))
  /\ WF_vars(chash_get_walk \/ chash_get_value)

NextHash ==
  \/ \E key \in Keys, value \in Vals : HashPut(key, value)
  \/ \E key \in Keys : HashDelete(key)
  \/ \E key \in Keys, value \in Vals : ShashPut(key, value)
  \/ \E key \in Keys : ShashDelete(key)
  \/ \E key \in IKeys, value \in Vals : IhashPut(key, value)
  \/ \E key \in IKeys : IhashGet(key)
  \/ \E key \in Keys : HsetInsert(key)
  \/ \E key \in Keys, value \in Vals : GhashPut(key, value)
  \/ \E key \in Keys, cmpnull \in BOOLEAN : GhashDelete(key, cmpnull)

SpecHash == InitHash /\ [][NextHash]_vars

\* after vcd_init: the file is open and nothing is written
InitVcd ==
  /\ mix = [k \in Keys |-> 0]
  /\ HashIdle
  /\ ChashIdle
  /\ vcd_out = <<>> /\ last_time = UINT64_MAX
  /\ vcd_fmt \in [Sigs -> BOOLEAN] /\ vcd_key = [d \in Sigs |-> -1]
  /\ vcd_now = 0 /\ vcd_cbs = 0 /\ vcd_runs = 0
  /\ TypeIdle
  /\ LayoutIdle
  /\ DebugIdle
  /\ ServerIdle
  /\ ColorIdle
  /\ TxIdle
  /\ LoopIdle
  /\ WsIdle
  /\ ValueIdle
  /\ DiagIdle

NextVcd ==
  \/ vcd_restart
  \/ \E now \in Times, decl \in Sigs : vcd_event_cb(now, decl)

SpecVcd == InitVcd /\ [][NextVcd]_vars

\* no type object exists yet
InitType ==
  /\ mix = [k \in Keys |-> 0]
  /\ HashIdle
  /\ ChashIdle
  /\ VcdIdle
  /\ TypeIdle
  /\ LayoutIdle
  /\ DebugIdle
  /\ ServerIdle
  /\ ColorIdle
  /\ TxIdle
  /\ LoopIdle
  /\ WsIdle
  /\ ValueIdle
  /\ DiagIdle

\* types built for the predicates: kind, ident, base and constraint
NextTypePred ==
  \/ \E kind \in TypeKinds : type_new(kind)
  \/ \E t \in TypeIds, id \in Idents : type_set_ident(t, id)
  \/ \E t \in TypeIds, b \in TypeIds : type_set_base(t, b)
  \/ \E t \in TypeIds : type_set_constraint(t, 1)

SpecTypePred == InitType /\ [][NextTypePred]_vars

\* the kinds type_eq and type_strict_eq tell apart
EqKinds ==
  {"T_SUBTYPE", "T_INTEGER", "T_CARRAY", "T_UARRAY", "T_ACCESS", "T_FUNC",
   "T_INCOMPLETE"}

EqIdents == {"WORK.T", "WORK.U"}

\* types of every kind of EqKinds, named or not; two different names are
\* told apart on the arrays of NextArrayEq
NextTypeEq ==
  \/ \E kind \in EqKinds : type_new(kind)
  \/ \E t \in TypeIds : type_set_ident(t, "WORK.T")
  \/ \E t \in TypeIds, b \in TypeIds : type_set_base(t, b)
  \/ \E t \in TypeIds, e \in TypeIds : type_set_elem(t, e)
  \/ \E t \in TypeIds : type_add_dim(t, 1)
  \/ \E t \in TypeIds, a \in TypeIds : type_set_access(t, a)
  \/ \E t \in TypeIds, r \in TypeIds : type_set_result(t, r)
  \/ \E t \in TypeIds, p \in TypeIds : type_add_param(t, p)

SpecTypeEq == InitType /\ [][NextTypeEq]_vars

\* The types the array comparisons of type_eq are followed on: arrays of both
\* kinds, their subtypes, and scalar or incomplete element types.
ArrayEqKinds ==
  {"T_SUBTYPE", "T_INTEGER", "T_CARRAY", "T_UARRAY", "T_INCOMPLETE"}

NextArrayEq ==
  \/ \E kind \in ArrayEqKinds : type_new(kind)
  \/ \E t \in TypeIds, id \in EqIdents : type_set_ident(t, id)
  \/ \E t \in TypeIds, b \in TypeIds : type_set_base(t, b)
  \/ \E t \in TypeIds, e \in TypeIds : type_set_elem(t, e)
  \/ \E t \in TypeIds : type_add_dim(t, 1)

SpecArrayEq == InitType /\ [][NextArrayEq]_vars

\* the diagnostics start with an empty queue and no errors; the driver has
\* set the option "unit-test" to 0 or 1
InitDiag ==
  /\ mix = [k \in Keys |-> 0]
  /\ HashIdle
  /\ ChashIdle
  /\ VcdIdle
  /\ TypeIdle
  /\ LayoutIdle
  /\ DebugIdle
  /\ ServerIdle
  /\ ColorIdle
  /\ TxIdle
  /\ LoopIdle
  /\ WsIdle
  /\ ValueIdle
  /\ hints = <<>> /\ n_errors = 0 /\ unit_test \in {0, 1}
  /\ diag_log = [calls |-> 0, errs |-> 0, others |-> 0, seq |-> 0,
                 last |-> [op |-> "none", queued |-> <<>>, out |-> <<>>]]

NextDiag ==
  \/ error_at
  \/ warn_at
  \/ note_at
  \/ hint_at
  \/ \E fn \in HintFns : set_hint_fn(fn)
  \/ clear_hint
  \/ reset_error_count

SpecDiag == InitDiag /\ [][NextDiag]_vars

\* the kinds layout_of and signal_layout_of tell apart
LayoutKinds ==
  {"T_SUBTYPE", "T_INTEGER", "T_REAL", "T_CARRAY", "T_UARRAY", "T_RECORD"}

\* types are built from types made before them, frozen, and then laid out
NextLayout ==
  \/ \E kind \in LayoutKinds : type_new(kind)
  \/ \E t \in TypeIds : \E b \in 1..(t - 1) : type_set_base(t, b)
  \/ \E t \in TypeIds : \E e \in 1..(t - 1) : type_set_elem(t, e)
  \/ \E t \in TypeIds, r \in Ranges : type_add_dim(t, r)
  \/ \E t \in TypeIds : \E c \in 1..(t - 1) : type_add_index_constr(t, c)
  \/ \E t \in TypeIds : \E f \in 1..(t - 1) : type_add_field(t, f)
  \/ \E t \in TypeIds, c \in Ranges : type_set_constraint(t, c)
  \/ freeze
  \/ \E t \in TypeIds : layout_of(t)
  \/ \E t \in TypeIds : signal_layout_of(t)

SpecLayout == InitType /\ [][NextLayout]_vars

\* the two copies of layout_of, each in a build of its own: a run calls the
\* one or the other
NextLayoutCopies ==
  \/ \E kind \in LayoutKinds : type_new(kind)
  \/ \E t \in TypeIds : \E b \in 1..(t - 1) : type_set_base(t, b)
  \/ \E t \in TypeIds : \E e \in 1..(t - 1) : type_set_elem(t, e)
  \/ \E t \in TypeIds, r \in Ranges : type_add_dim(t, r)
  \/ \E t \in TypeIds : \E c \in 1..(t - 1) : type_add_index_constr(t, c)
  \/ \E t \in TypeIds : \E f \in 1..(t - 1) : type_add_field(t, f)
  \/ \E t \in TypeIds, c \in Ranges : type_set_constraint(t, c)
  \/ freeze
  \/ \E t \in TypeIds : lo_last.fn # "layout_of_2" /\ layout_of(t)
  \/ \E t \in TypeIds : layout_of_2(t)

SpecLayoutCopies == InitType /\ [][NextLayoutCopies]_vars

\* debug.c: captures and symbol lookups of one thread
InitDebug ==
  /\ mix = [k \in Keys |-> 0]
  /\ HashIdle
  /\ ChashIdle
  /\ VcdIdle
  /\ TypeIdle
  /\ LayoutIdle
  /\ DiagIdle
  /\ DebugIdle
  /\ ServerIdle
  /\ ColorIdle
  /\ TxIdle
  /\ LoopIdle
  /\ WsIdle
  /\ ValueIdle

NextDebug ==
  \/ debug_capture
  \/ \E ip \in Pcs : unwind_frame_iter(ip)
  \/ debug_capture_return
  \/ \E addr \in Pcs \ {0} : debug_symbol_name(addr)

SpecDebug == InitDebug /\ [][NextDebug]_vars

\* server.c: one CXXRTL server, its connections and the polls of its socket
InitServer ==
  /\ mix = [k \in Keys |-> 0]
  /\ HashIdle
  /\ ChashIdle
  /\ VcdIdle
  /\ TypeIdle
  /\ LayoutIdle
  /\ DiagIdle
  /\ DebugIdle
  /\ ServerIdle
  /\ ColorIdle
  /\ TxIdle
  /\ LoopIdle
  /\ WsIdle
  /\ ValueIdle

NextServer ==
  \/ \E fd \in 3..MaxFd : handle_new_connection(fd)
  \/ \E rd, wr \in BOOLEAN, recv \in RecvResults : poll_sockets(rd, wr, recv)

SpecServer == InitServer /\ [][NextServer]_vars

\* test_value.c: one parse_value call on a string of a scalar type
InitValue ==
  /\ mix = [k \in Keys |-> 0]
  /\ HashIdle
  /\ ChashIdle
  /\ VcdIdle
  /\ TypeIdle
  /\ LayoutIdle
  /\ DiagIdle
  /\ DebugIdle
  /\ ServerIdle
  /\ ColorIdle
  /\ TxIdle
  /\ LoopIdle
  /\ WsIdle
  /\ pv \in [type : ValueTypes, str : Strings, done : {FALSE}, res : {NoResult}]

NextValue ==
  \/ test_parse_value

SpecValue == InitValue /\ [][NextValue]_vars

\* util.c: one filter_color call on a message
InitColor ==
  /\ mix = [k \in Keys |-> 0]
  /\ HashIdle
  /\ ChashIdle
  /\ VcdIdle
  /\ TypeIdle
  /\ LayoutIdle
  /\ DiagIdle
  /\ DebugIdle
  /\ ServerIdle
  /\ TxIdle
  /\ LoopIdle
  /\ WsIdle
  /\ ValueIdle
  /\ fc \in [str : ColorStrings, force_plain : BOOLEAN, want_color : BOOLEAN,
            done : {FALSE}, res : {NoCopy}]

NextColor ==
  \/ prepare_msg

SpecColor == InitColor /\ [][NextColor]_vars

\* server.c: one WebSocket whose client sends up to MaxFrames frames
InitWs ==
  /\ mix = [k \in Keys |-> 0]
  /\ HashIdle
  /\ ChashIdle
  /\ VcdIdle
  /\ TypeIdle
  /\ LayoutIdle
  /\ DiagIdle
  /\ DebugIdle
  /\ ServerIdle
  /\ ColorIdle
  /\ TxIdle
  /\ LoopIdle
  /\ ValueIdle
  /\ ws = ws_new(accept_fd({}), FALSE)
  /\ \E frames \in UNION {[1..n -> ClientFrames] : n \in 1..MaxFrames} :
       ws_client = [wire |-> wire_of(frames), frames |-> frames, reads |-> 0]

NextWs ==
  \/ \E n \in 0..RxSize, kind \in {"data", "eagain", "eof", "err"} : ws_poll_socket(n, kind)
  \/ \E sent \in 0..RxSize, fail \in BOOLEAN : ws_flush_socket(sent, fail)

SpecWs == InitWs /\ [][NextWs]_vars

\* server.c: one frame queued by ws_send on one side and read by ws_poll on
\* the other, in one read or split over several; rx_buf holds one byte more
\* than recv may fill
InitWire ==
  /\ mix = [k \in Keys |-> 0]
  /\ HashIdle
  /\ ChashIdle
  /\ VcdIdle
  /\ TypeIdle
  /\ LayoutIdle
  /\ DiagIdle
  /\ DebugIdle
  /\ ServerIdle
  /\ ColorIdle
  /\ LoopIdle
  /\ ValueIdle
  /\ TxIdle
  /\ \E f \in WireFrames, masks \in TxMasks :
       LET wire == ws_frame(f.opcode, f.mask, masks, f.payload)
       IN  /\ f.mask \/ masks = <<18, 52, 86, 120>>
           /\ ws_client = [wire |-> wire, frames |-> <<f>>, reads |-> 0]
           /\ ws = [ws_new(accept_fd({}), FALSE) EXCEPT
                      !.rx_buf = <<>> \o [i \in 1..(Len(wire) + 1) |-> 0]]

NextWire ==
  \/ \E n \in SplitSizes : ws_poll_split(n)
  \/ ws_poll_rest

SpecWire == InitWire /\ [][NextWire]_vars

\* server.c: ws_send and ws_flush calls on one WebSocket, in any order
InitTx ==
  /\ mix = [k \in Keys |-> 0]
  /\ HashIdle
  /\ ChashIdle
  /\ VcdIdle
  /\ TypeIdle
  /\ LayoutIdle
  /\ DiagIdle
  /\ DebugIdle
  /\ ServerIdle
  /\ ColorIdle
  /\ LoopIdle
  /\ WsIdle
  /\ ValueIdle
  /\ \E mask \in BOOLEAN : wtx = tx_new(mask)

NextTx ==
  \/ \E call \in TxCalls, masks \in TxMasks : ws_send_call(call, masks)
  \/ \E results \in UNION {[1..n -> SendResults] : n \in 0..2} : ws_flush_call(results)

SpecTx == InitTx /\ [][NextTx]_vars

\* server.c: start_server for either protocol, with the clients it serves
InitLoop ==
  /\ mix = [k \in Keys |-> 0]
  /\ HashIdle
  /\ ChashIdle
  /\ VcdIdle
  /\ TypeIdle
  /\ LayoutIdle
  /\ DiagIdle
  /\ DebugIdle
  /\ ServerIdle
  /\ ColorIdle
  /\ TxIdle
  /\ ValueIdle
  /\ WsIdle
  /\ \E kind \in ServerKinds, init_cmd \in BOOLEAN :
       /\ init_cmd => kind = "SERVER_HTTP"
       /\ srv = start_server(kind, init_cmd)

NextLoop ==
  \/ \E newconn, rd, wr, fail \in BOOLEAN, kind \in {"data", "eagain", "eof", "err"},
        frame \in LoopFrames, sent \in 0..RxSize :
       start_server_http(newconn, rd, wr, kind, frame, sent, fail)
  \/ \E newconn, rd, wr, fail \in BOOLEAN, recv \in LoopRecv, sent \in 0..MaxTx :
       start_server_cxxrtl(newconn, rd, wr, recv, sent, fail)
  \/ start_server_fd_set_fault
  \/ start_server_break

SpecLoop == InitLoop /\ [][NextLoop]_vars

\* an iteration in which no client does anything and send, if there is
\* output, takes all of it
HttpProgress ==
  \E wr \in BOOLEAN, frame \in LoopFrames, sent \in 0..RxSize :
    /\ wr = (ws.sock # -1 /\ ws.tx # <<>>)
    /\ sent = IF wr THEN Len(ws.tx) ELSE 0
    /\ start_server_http(FALSE, FALSE, wr, "eagain", frame, sent, FALSE)

CxxrtlProgress ==
  \E wr \in BOOLEAN, sent \in 0..MaxTx :
    /\ wr = (cxxrtl.sock # -1 /\ cxxrtl.tx # <<>>)
    /\ sent = IF wr THEN Len(cxxrtl.tx) ELSE 0
    /\ start_server_cxxrtl(FALSE, FALSE, wr, Quiet, sent, FALSE)

\* select returns after a second at the latest, so the loop keeps running;
\* queued output can be written
SpecLoopLive ==
  /\ InitLoop /\ [][NextLoop]_vars
  /\ SF_vars(HttpProgress) /\ SF_vars(CxxrtlProgress) /\ WF_vars(start_server_break)


\* ------------------------------------------------------------------------
\* C1: when several threads call chash_put concurrently with arbitrary
\* (colliding, repeated) keys and non-NULL values, then once all calls have
\* returned chash_get(k) is non-NULL for exactly the keys passed to some
\* chash_put: no insertion is lost and no other key appears.
ChashQuiescent == \A t \in Threads : ch_pc[t] = "idle"

C1_NoLostInsertion ==
  ChashQuiescent =>
    \A k \in Keys : (chash_get(k) # NULL) <=> (k \in ch_keys)

\* all calls made and returned, a CAS was lost on the way, and two distinct
\* keys that share a slot are both in the map
C1_Witness ==
  /\ ChashQuiescent
  /\ \A t \in Threads : ch_calls[t] = MaxCalls
  /\ ch_casfail
  /\ \E k1, k2 \in ch_keys :
       /\ k1 # k2
       /\ hash_slot(ChashSize, k1) = hash_slot(ChashSize, k2)
       /\ chash_get(k1) # NULL /\ chash_get(k2) # NULL

\* ------------------------------------------------------------------------
\* C6: every open-addressing table (hash, shash, ihash, hset, ghash) rehashes
\* at load one half by doubling and reinsertion: the size is always a power
\* of two, members <= size/2 after each put, and every mapping present
\* before a rehash is present with the same value in the rebuilt table.
C6_hash ==
  /\ IsPow2(h.size)
  /\ h.members <= h.size \div 2
  /\ h.members >= h.size \div 2 =>
       LET r == hash_rehash(h)
       IN  /\ r.size = 2 * h.size
           /\ \A k \in Keys : hash_get(h, k) # NULL => hash_get(r, k) = hash_get(h, k)

C6_shash ==
  /\ IsPow2(sh.size)
  /\ sh.members <= sh.size \div 2
  /\ sh.members >= sh.size \div 2 =>
       LET r == shash_rehash(sh)
       IN  /\ r.size = 2 * sh.size
           /\ \A k \in Keys : shash_get(sh, k) # NULL => shash_get(r, k) = shash_get(sh, k)

C6_ihash ==
  /\ IsPow2(ih.size)
  /\ ih.members <= ih.size \div 2
  /\ ih.members >= ih.size \div 2 =>
       LET r == ihash_rehash(ih)
       IN  /\ r.size = 2 * ih.size
           /\ \A k \in IKeys : ihash_get(ih, k).ret # NULL =>
                 ihash_get(r, k).ret = ihash_get(ih, k).ret

C6_hset ==
  /\ IsPow2(hs.size)
  /\ hs.members <= hs.size \div 2
  /\ hs.members >= hs.size \div 2 =>
       LET r == hset_rehash(hs)
       IN  /\ r.size = 2 * hs.size
           /\ \A k \in Keys : hset_contains(hs, k) => hset_contains(r, k)

C6_ghash ==
  /\ IsPow2(gh.size)
  /\ gh.members <= gh.size \div 2
  /\ gh.members >= gh.size \div 2 =>
       LET r == ghash_rehash(gh)
       IN  /\ r.size = 2 * gh.size
           /\ \A k \in Keys : ghash_get(gh, k) # NULL => ghash_get(r, k) = ghash_get(gh, k)

C6_RehashAtHalfLoad ==
  ~ht_hung /\ C6_hash /\ C6_shash /\ C6_ihash /\ C6_hset /\ C6_ghash

\* a pointer table that has been rebuilt at least once, holds two live
\* mappings with different values and is due for its next rebuild
C6_Witness ==
  /\ tbl = "hash" /\ h.size >= 4 /\ h.members = h.size \div 2
  /\ \E k1, k2 \in Keys :
       /\ hash_get(h, k1) # NULL /\ hash_get(h, k2) # NULL
       /\ hash_get(h, k1) # hash_get(h, k2)


\* The lines of the current dump: what follows the last header in vcd_out
VcdDumpStart ==
  LET hs_ == {i \in 1..Len(vcd_out) : vcd_out[i].kind = "header"}
  IN  IF hs_ = {} THEN 0 ELSE CHOOSE i \in hs_ : \A j \in hs_ : j <= i

VcdDump == SubSeq(vcd_out, VcdDumpStart + 1, Len(vcd_out))

VcdCbValue(l) == l.kind = "value" /\ l.by = "vcd_event_cb"

\* C7: with callbacks delivered at non-decreasing times, the dump holds at
\* most one time stamp line per distinct time, each time stamp line stands
\* directly before a callback's value line of that time and after no
\* callback's value line of that time, and the callbacks have written one
\* value line each.
C7_StampOncePerTime ==
  LET dump == VcdDump
  IN  /\ \A i, j \in 1..Len(dump) :
           (dump[i].kind = "time" /\ dump[j].kind = "time"
              /\ dump[i].at = dump[j].at) => i = j
      /\ \A i \in 1..Len(dump) : dump[i].kind = "time" =>
           /\ i < Len(dump)
           /\ VcdCbValue(dump[i + 1]) /\ dump[i + 1].at = dump[i].at
           /\ \A j \in 1..(i - 1) : ~(VcdCbValue(dump[j]) /\ dump[j].at = dump[i].at)
      /\ Cardinality({i \in 1..Len(vcd_out) : VcdCbValue(vcd_out[i])}) = vcd_cbs

\* C7 witness: two callbacks of one time share a single time stamp line and
\* a callback of a later time has written its own
C7_Witness ==
  LET dump == VcdDump
  IN  \E i, j, k \in 1..Len(dump) :
        /\ i < j /\ j < k
        /\ dump[i].kind = "time" /\ VcdCbValue(dump[i + 1]) /\ VcdCbValue(dump[j])
        /\ j > i + 1 /\ dump[j].at = dump[i].at
        /\ dump[k].kind = "time" /\ dump[k].at > dump[i].at
        /\ \A m \in (i + 1)..j : dump[m].kind = "value"

Returned(r) == r \in {"true", "false"}

\* C3: type_eq(t, t) is true for every type t, and for all types a and b
\* type_eq(a, b) and type_eq(b, a) return the same value, or neither call
\* returns.
C3_TypeEqReflSym ==
  /\ \A t \in TypeIds : type_eq(t, t) = "true"
  /\ \A a, b \in TypeIds :
       LET ab == type_eq(a, b)
           ba == type_eq(b, a)
       IN  IF Returned(ab) THEN ba = ab ELSE ~Returned(ba)

\* C3 witness: a subtype of a constrained array compares equal, both ways,
\* to an unconstrained array of an equal element type
C3_Witness ==
  \E a, b, c \in TypeIds :
    /\ types[a].kind = "T_CARRAY" /\ types[b].kind = "T_UARRAY"
    /\ types[c].kind = "T_SUBTYPE" /\ types[c].base = a
    /\ types[a].elem # NULL /\ types[b].elem # NULL
    /\ type_eq(c, b) = "true" /\ type_eq(b, c) = "true"

\* every item of every type refers to a type made before it
BuiltBottomUp ==
  \A t \in TypeIds :
    /\ types[t].base < t /\ types[t].elem < t
    /\ types[t].access < t /\ types[t].result < t
    /\ \A i \in 1..Len(types[t].params) : types[t].params[i] < t

\* C2: for types built bottom-up, whenever type_strict_eq(a, b) is true and
\* type_eq(a, b) returns, type_eq(a, b) is true as well.
C2_StrictEqImpliesEq ==
  BuiltBottomUp =>
    \A a, b \in TypeIds :
      (type_strict_eq(a, b) = "true" /\ Returned(type_eq(a, b)))
        => type_eq(a, b) = "true"

\* C8: from every T_SUBTYPE type whose base items are set along the way,
\* following the base reaches a type that is not a subtype, so that
\* type_base_recur returns.
C8_BaseChainsWellFounded ==
  \A t \in TypeIds :
    types[t].kind = "T_SUBTYPE" => type_base_recur(t) # -2

\* the subtypes C9 speaks of: no constraint of their own, base set
PlainSubtypes ==
  {s \in TypeIds : /\ types[s].kind = "T_SUBTYPE"
                   /\ ~type_has_constraint(s)
                   /\ types[s].base # NULL}

\* C9 as stated: each of the seven predicates gives a subtype without a
\* constraint the result it gives the subtype's base.
C9_SevenPredicatesFollowBase ==
  \A s \in PlainSubtypes :
    LET b == types[s].base
    IN  /\ type_is_array(s) = type_is_array(b)
        /\ type_is_record(s) = type_is_record(b)
        /\ type_is_scalar(s) = type_is_scalar(b)
        /\ type_is_discrete(s) = type_is_discrete(b)
        /\ type_is_universal(s) = type_is_universal(b)
        /\ type_is_unconstrained(s) = type_is_unconstrained(b)
        /\ type_is_composite(s) = type_is_composite(b)

\* C9 amended: type_is_array, type_is_record, type_is_scalar,
\* type_is_discrete, type_is_unconstrained and type_is_composite give a
\* subtype without a constraint the result they give its base, and
\* type_is_universal is false for every T_SUBTYPE type.
C9_SixPredicatesFollowBase ==
  /\ \A s \in PlainSubtypes :
       LET b == types[s].base
       IN  /\ type_is_array(s) = type_is_array(b)
           /\ type_is_record(s) = type_is_record(b)
           /\ type_is_scalar(s) = type_is_scalar(b)
           /\ type_is_discrete(s) = type_is_discrete(b)
           /\ type_is_unconstrained(s) = type_is_unconstrained(b)
           /\ type_is_composite(s) = type_is_composite(b)
  /\ \A s \in TypeIds :
       types[s].kind = "T_SUBTYPE" => type_is_universal(s) = "false"

\* C9 witness: a subtype of a subtype of an unconstrained array, neither
\* with a constraint, is an unconstrained composite array type
C9_Witness ==
  \E s, m, b \in TypeIds :
    /\ s \in PlainSubtypes /\ m \in PlainSubtypes
    /\ types[s].base = m /\ types[m].base = b
    /\ types[b].kind = "T_UARRAY"
    /\ type_is_array(s) = "true" /\ type_is_unconstrained(s) = "true"
    /\ type_is_composite(s) = "true" /\ type_is_scalar(s) = "false"

\* from is the universal integer or the universal real type itself
IsUniversalType(t) ==
  \/ types[t].kind = "T_INTEGER" /\ types[t].ident = "universal_integer"
  \/ types[t].kind = "T_REAL" /\ types[t].ident = "universal_real"

\* to is a type of the family of the universal type from, and not universal
SameFamilyNonUniversal(from, to) ==
  /\ ~(to \in TypeIds /\ IsUniversalType(to))
  /\ type_base_kind(to) = types[from].kind

\* C10 as stated: type_is_convertible(from, to) is true only when from is a
\* universal integer or real type and to is a non-universal type of the
\* same family.
C10_ConvertibleOnlyFromUniversal ==
  \A from, to \in TypeIds :
    type_is_convertible(from, to) = "true"
      => (IsUniversalType(from) /\ SameFamilyNonUniversal(from, to))

\* C10 amended: when the call returns, type_is_convertible(from, to) is true
\* exactly when the base kind of from is T_NONE, or from is itself a
\* universal integer or real type and to is a non-universal type whose base
\* kind is that of from.
C10_ConvertibleFromUniversalOrNone ==
  \A from, to \in TypeIds :
    LET r == type_is_convertible(from, to)
    IN  Returned(r) =>
          (r = "true" <=>
             \/ type_base_kind(from) = "T_NONE"
             \/ IsUniversalType(from) /\ SameFamilyNonUniversal(from, to))

\* C10 witness: the universal integer converts to a subtype of a named
\* integer type, and not back
C10_Witness ==
  \E from, to, b \in TypeIds :
    /\ IsUniversalType(from) /\ types[from].kind = "T_INTEGER"
    /\ types[to].kind = "T_SUBTYPE" /\ types[to].base = b
    /\ types[b].kind = "T_INTEGER" /\ types[b].ident = "WORK.T"
    /\ type_is_convertible(from, to) = "true"
    /\ type_is_convertible(to, from) = "false"

RECURSIVE PartsTotal(_, _)
PartsTotal(parts, i) ==
  IF i > Len(parts) THEN 0
  ELSE parts[i].size * parts[i].repeat + PartsTotal(parts, i + 1)

MultipleOf(x, a) == IF a = 0 THEN x = 0 ELSE x % a = 0

C5_LayoutsMemoized ==
  /\ \A fn \in LayoutFns, t \in 1..MaxTypes :
       lo_first[fn][t].l # NULL =>
         layouts[lo_first[fn][t].l] = lo_first[fn][t].val
  /\ lo_last.fn # "none" => lo_first[lo_last.fn][lo_last.type].l = lo_last.l
  /\ \A t, u \in 1..MaxTypes :
       lo_first["layout_of"][t].l # NULL =>
         lo_first["layout_of"][t].l # lo_first["signal_layout_of"][u].l

\* C5 witness: the same function was called twice with the same type, a
\* record of two fields, and the signal flavour of a field type is cached
\* apart from the plain one
C5_Witness ==
  /\ lo_calls = 2
  /\ \E fn \in LayoutFns, t \in 1..MaxTypes :
       /\ lo_last.fn = fn /\ lo_last.type = t
       /\ \A g \in LayoutFns, u \in 1..MaxTypes :
            lo_first[g][u].l # NULL <=> (g = fn /\ u = t)
       /\ Len(layouts[lo_last.l].parts) = 2
       /\ Len(layouts) > 1

\* the pairs C11 speaks of: a reaches a constrained array and b an
\* unconstrained array through their bases, both with an element type
ArrayPairs ==
  {p \in TypeIds \X TypeIds :
     /\ type_base_recur(p[1]) > 0 /\ type_base_recur(p[2]) > 0
     /\ types[type_base_recur(p[1])].kind = "T_CARRAY"
     /\ types[type_base_recur(p[2])].kind = "T_UARRAY"
     /\ type_elem(p[1]) > 0 /\ type_elem(p[2]) > 0}

\* the two array types behind the pair both carry an identifier and the
\* identifiers differ
IdentsDiffer(p) ==
  LET a == type_base_recur(p[1])
      b == type_base_recur(p[2])
  IN  /\ types[a].ident # NULL_IDENT /\ types[b].ident # NULL_IDENT
      /\ types[a].ident # types[b].ident

ElemEq(p) == type_eq(type_elem(p[1]), type_elem(p[2]))

\* C11 as stated: for a constrained array a and an unconstrained array b,
\* each possibly behind subtypes, type_eq(a, b) is true if and only if
\* type_eq(type_elem(a), type_elem(b)) is true (for types built bottom-up,
\* where both calls return).
C11_ArrayPairEqIffElemEq ==
  BuiltBottomUp =>
    \A p \in ArrayPairs :
      (Returned(type_eq(p[1], p[2])) /\ Returned(ElemEq(p)))
        => (type_eq(p[1], p[2]) = "true" <=> ElemEq(p) = "true")

\* C11 amended: type_eq(a, b) is true if and only if the two array types do
\* not carry different identifiers and type_eq of the element types is true
\* (where both calls return).
C11_ArrayPairEqIffIdentAndElemEq ==
  \A p \in ArrayPairs :
    (Returned(type_eq(p[1], p[2])) /\ Returned(ElemEq(p)))
      => (type_eq(p[1], p[2]) = "true"
            <=> (~IdentsDiffer(p) /\ ElemEq(p) = "true"))

\* C11 witness: a subtype of a constrained array and an unconstrained array
\* with different identifiers over the same element type compare unequal
C11_Witness ==
  \E p \in ArrayPairs :
    /\ types[p[1]].kind = "T_SUBTYPE"
    /\ IdentsDiffer(p)
    /\ ElemEq(p) = "true"
    /\ type_eq(p[1], p[2]) = "false"

\* the pairs C12 speaks of: neither type is a subtype or incomplete, and
\* the two are not a constrained and an unconstrained array
PlainPairs ==
  {p \in TypeIds \X TypeIds :
     /\ types[p[1]].kind \notin {"T_SUBTYPE", "T_INCOMPLETE"}
     /\ types[p[2]].kind \notin {"T_SUBTYPE", "T_INCOMPLETE"}
     /\ ~compare_c_u_arrays(types[p[1]].kind, types[p[2]].kind)}

\* C12: for types built bottom-up, on every pair of types that are not
\* subtypes, not incomplete and not a constrained/unconstrained array pair,
\* type_eq returns what type_strict_eq returns.
C12_EqDefersToStrict ==
  BuiltBottomUp =>
    \A p \in PlainPairs :
      (Returned(type_eq(p[1], p[2])) /\ Returned(type_strict_eq(p[1], p[2])))
        => type_eq(p[1], p[2]) = type_strict_eq(p[1], p[2])

\* the positions of the latest call's output at which the function of the
\* hint with this id was called
Deliveries(id) ==
  {j \in 1..Len(diag_log.last.out) :
     diag_log.last.out[j] = diag_event("hint", id)}

\* C13: when error_at returns, the function of every hint that was queued
\* has been called exactly once during the call and after the error message,
\* no other hint was delivered, and the queue is empty; hint_at and
\* set_hint_fn deliver nothing, and in no call is a hint delivered before
\* the message of the diagnostic.
C13_HintsFlushedOnError ==
  LET last == diag_log.last IN
  /\ last.op = "error_at" =>
       /\ hints = <<>>
       /\ last.out[1] = diag_event("error", 0)
       /\ \A i \in 1..Len(last.queued) :
            Cardinality(Deliveries(last.queued[i].id)) = 1
       /\ \A j \in 1..Len(last.out) :
            last.out[j].kind = "hint" =>
              \E i \in 1..Len(last.queued) : last.queued[i].id = last.out[j].id
  /\ last.op \in {"hint_at", "set_hint_fn"} => last.out = <<>>
  /\ last.out # <<>> => last.out[1].kind # "hint"

\* C13 witness: error_at returned after a hint_at and a set_hint_fn, and
\* both hints were delivered during the call
C13_Witness ==
  LET last == diag_log.last IN
  /\ last.op = "error_at"
  /\ Len(last.queued) = 2
  /\ last.queued[1].func = "note_fn"
  /\ last.queued[2].func = "default_hint_fn"
  /\ Cardinality({j \in 1..Len(last.out) : last.out[j].kind = "hint"}) = 2
  /\ hints = <<>>

\* C14 as stated: error_count() is the number of error_at calls since the
\* last reset_error_count.
C14_CountsErrorsOnly == error_count = diag_log.errs

\* C14 amended: with the option unit-test at 0, error_count() is the number
\* of error_at calls since the last reset; with the option set, every
\* warn_at and note_at call since then, those made by flushed hints
\* included, counts as well.
C14_CountsErrorsUnlessUnitTest ==
  error_count = diag_log.errs + (IF unit_test # 0 THEN diag_log.others ELSE 0)

\* C14 witness: outside unit-test a warning, and an error that flushed a
\* hint as a note, left the count at one
C14_Witness ==
  /\ unit_test = 0
  /\ diag_log.errs = 1 /\ diag_log.others = 2
  /\ diag_log.last.op = "error_at" /\ Len(diag_log.last.queued) = 1
  /\ error_count = 1

\* the layout layout_of first returned for a type, and whether it has
Laid(fn, t) == lo_first[fn][t].l # NULL

LayoutOf(fn, t) == lo_first[fn][t].val

\* C15: the layout layout_of returns (either copy) for an unconstrained
\* array type, or a subtype of one without a constraint, is an EXTERNAL
\* pointer part at offset 0 and a BOUNDS part of 2 * ndims entries of 8
\* bytes, of size pointer + 16 * ndims; for the subtype it is the layout of
\* the base.
C15_UnconstrainedArrayLayout ==
  \A t \in TypeIds :
    (Laid("layout_of", t) /\ type_is_unconstrained(t) = "true") =>
      LET lay   == LayoutOf("layout_of", t)
          ndims == dimension_of(t)
      IN  /\ lay.parts =
               <<layout_part(0, sizeof_ptr, 1, sizeof_ptr, "LC_EXTERNAL"),
                 layout_part(sizeof_ptr, 8, 2 * ndims, 8, "LC_BOUNDS")>>
          /\ lay.size = sizeof_ptr + 16 * ndims
          /\ types[t].kind = "T_SUBTYPE" =>
               lo_first["layout_of"][t].l =
                 hash_get(layout_cache, type_base_recur(t))

\* what C15 says, of the first copy of layout_of alone
C15_FirstCopy == lo_last.fn # "layout_of_2" => C15_UnconstrainedArrayLayout

\* the layout the copy of layout_of in use has cached for a field type
FieldLayout(ftype) ==
  LET r == IF lo_last.fn = "layout_of_2"
           THEN layout_of_2_in(ftype, layout_cache, layouts, MaxTypes)
           ELSE layout_of_in(ftype, layout_cache, layouts, MaxTypes)
  IN  r.heap[r.l]

PartEnd(parts, i) == IF i = 0 THEN 0 ELSE parts[i].offset + parts[i].size

HasPart(lay, class) == \E i \in 1..Len(lay.parts) : lay.parts[i].class = class

\* C17 as stated: every layout signal_layout_of returns has an EXTERNAL
\* pointer part and no DATA part, and has an OFFSET part of 8 bytes exactly
\* when the type is homogeneous.
C17_SignalLayoutExternal ==
  \A t \in TypeIds :
    Laid("signal_layout_of", t) =>
      LET lay == LayoutOf("signal_layout_of", t)
      IN  /\ HasPart(lay, "LC_EXTERNAL")
          /\ ~HasPart(lay, "LC_DATA")
          /\ HasPart(lay, "LC_OFFSET") <=> type_is_homogeneous(t)
          /\ \A i \in 1..Len(lay.parts) :
               lay.parts[i].class = "LC_OFFSET" => lay.parts[i].size = 8

\* the layout signal_layout_of has cached for a field type
SignalFieldLayout(ftype) ==
  LET r == signal_layout_of_in(ftype, signal_cache, layouts, MaxTypes)
  IN  r.heap[r.l]

\* C17 amended: for a type that is not a record the layout starts with an
\* EXTERNAL pointer part at offset 0, has no DATA part, and has an OFFSET
\* part of 8 bytes exactly when the type is homogeneous (always for
\* scalars); for a record type the layout has no pointer or offset part of
\* its own but one DATA part per field, of the size of the field's signal
\* layout.
C17_SignalLayoutExternalButRecords ==
  \A t \in TypeIds :
    Laid("signal_layout_of", t) =>
      LET lay == LayoutOf("signal_layout_of", t)
      IN  IF type_is_record(t) = "true"
          THEN /\ Len(lay.parts) = Len(type_fields(t))
               /\ \A i \in 1..Len(lay.parts) :
                    /\ lay.parts[i].class = "LC_DATA"
                    /\ lay.parts[i].size = SignalFieldLayout(type_fields(t)[i]).size
          ELSE /\ lay.parts[1] =
                    layout_part(0, sizeof_ptr, 1, sizeof_ptr, "LC_EXTERNAL")
               /\ ~HasPart(lay, "LC_DATA")
               /\ HasPart(lay, "LC_OFFSET") <=> type_is_homogeneous(t)
               /\ type_is_scalar(t) = "true" => HasPart(lay, "LC_OFFSET")
               /\ \A i \in 1..Len(lay.parts) :
                    lay.parts[i].class = "LC_OFFSET" => lay.parts[i].size = 8

\* C17 witness: signal_layout_of returned the layout of an array of records,
\* a pointer without an offset, after the layout of the record, whose part
\* is the signal layout of its scalar field
C17_Witness ==
  \E a, r \in TypeIds :
    /\ Laid("signal_layout_of", a) /\ Laid("signal_layout_of", r)
    /\ type_is_array(a) = "true" /\ type_is_record(r) = "true"
    /\ ~type_is_homogeneous(a)
    /\ Len(LayoutOf("signal_layout_of", a).parts) = 1
    /\ Len(LayoutOf("signal_layout_of", r).parts) = 1
    /\ LayoutOf("signal_layout_of", r).parts[1].size = 16

PutsPending == \E t \in Threads : ch_pc[t] # "idle"

RECURSIVE PutsBegun(_)
PutsBegun(t) == IF t = 0 THEN 0 ELSE ch_calls[t] + PutsBegun(t - 1)

\* the chash_put calls that have returned
PutsCompleted ==
  PutsBegun(MaxThreads) - Cardinality({t \in Threads : ch_pc[t] # "idle"})

\* C18: a chash_put goes back to walk its chain only from a lost CAS, that
\* is with a node linked at *p since it read NULL there, and links nothing
\* in that step; while some chash_put is pending and the threads inside a
\* call keep taking steps, a further chash_put returns; chash_get takes at
\* most one step per key and one more, and returns without any step of a
\* writer.
C18_PutLockFreeGetNeverWaits ==
  /\ [][\A t \in Threads :
          (ch_pc[t] = "cas" /\ ch_pc'[t] = "walk") =>
            /\ ChashDeref(ch_loc[t].slot, ch_loc[t].p) # NULL
            /\ ch_nodes' = ch_nodes /\ ch_slots' = ch_slots]_vars
  /\ \A n \in 0..(MaxThreads * MaxCalls) :
       (PutsPending /\ PutsCompleted = n) ~> (PutsCompleted > n)
  /\ [](ch_get.steps <= MaxKey + 1)
  /\ (ch_get.pc # "idle") ~> (ch_get.pc = "idle")

\* C18 witness: a chash_put lost its CAS to another thread and walked again,
\* every call of the writers returned, and the reader walked past a node to
\* the value of its key
C18_Witness ==
  /\ ch_casfail
  /\ ChashQuiescent
  /\ \A t \in Threads : ch_calls[t] = MaxCalls
  /\ ch_get.pc = "idle" /\ ch_get.calls = 1
  /\ ch_get.steps = 3 /\ ch_get.ret # NULL

\* ------------------------------------------------------------------------
\* C19: when debug_capture has returned, every frame of di->frames has the
\* pc the unwinder reported when the frame was pushed: no cache entry whose
\* frame is in di->frames was reused for another pc during the capture.
C19_FramesDescribeCapturedPc ==
  dbg.returned =>
    \A i \in 1..Len(dbg.frames) : dbg.frame_pc[dbg.frames[i]] = dbg.ips[i]

\* the distinct pcs of the capture so far
CapturedPcs == {dbg.ips[i] : i \in 1..Len(dbg.ips)}

\* the same statement for captures of at most DI_LRU_SIZE distinct pcs
C19_ShallowFramesDescribeCapturedPc ==
  (dbg.returned /\ Cardinality(CapturedPcs) <= DI_LRU_SIZE) =>
    \A i \in 1..Len(dbg.frames) : dbg.frame_pc[dbg.frames[i]] = dbg.ips[i]

\* ------------------------------------------------------------------------
\* C20: a message of type command whose command is a name other than
\* get_simulation_status and nvc.quit_simulation, the six other commands of
\* the greeting reply included, is answered with an error response, and the
\* handler leaves the shutdown flag and the socket as they were.
ImplementedCommands == {"get_simulation_status", "nvc.quit_simulation"}

OtherCommand(json) ==
  /\ json.kind = "object" /\ json.type = "command"
  /\ json.command \in CommandNames \ ImplementedCommands

AdvertisedOnly ==
  {"list_scopes", "list_items", "reference_items", "query_interval",
   "run_simulation", "pause_simulation"}

bad_command(json) ==
  [json EXCEPT !.type = "error", !.error = "bad_command",
               !.message = "Invalid command"]

C20_OtherCommandsAnsweredWithError ==
  /\ \A json \in Messages :
       (OtherCommand(json) /\ ~cxxrtl.crashed) =>
         /\ handle_command(cxxrtl, json) # {}
         /\ \A c \in handle_command(cxxrtl, json) :
              /\ c.tx = Append(cxxrtl.tx, bad_command(json))
              /\ c.shutdown = cxxrtl.shutdown /\ c.sock = cxxrtl.sock
              /\ ~c.crashed
  /\ (cxxrtl.handled /\ OtherCommand(cxxrtl.msg)) =>
       /\ cxxrtl.after.tx = Append(cxxrtl.before.tx, bad_command(cxxrtl.msg))
       /\ cxxrtl.after.shutdown = cxxrtl.before.shutdown
       /\ cxxrtl.after.sock = cxxrtl.before.sock
       /\ ~cxxrtl.crashed
  /\ \A i \in 1..Len(cxxrtl.tx) :
       cxxrtl.tx[i].type = "greeting" =>
         AdvertisedOnly \subseteq
           {cxxrtl.tx[i].commands[j] : j \in 1..Len(cxxrtl.tx[i].commands)}

\* the client was greeted and then sent run_simulation, which the greeting
\* reply lists: both answers wait in the tx buffer of a live connection
C20_Witness ==
  /\ cxxrtl.handled /\ cxxrtl.msg.type = "command"
  /\ cxxrtl.msg.command = "run_simulation"
  /\ cxxrtl.sock # -1 /\ ~cxxrtl.shutdown /\ ~cxxrtl.crashed
  /\ Len(cxxrtl.tx) = 2 /\ cxxrtl.tx = cxxrtl.after.tx
  /\ cxxrtl.tx[1].type = "greeting" /\ cxxrtl.tx[1].commands = supported_commands
  /\ cxxrtl.tx[2] = bad_command(cxxrtl.msg)

\* ------------------------------------------------------------------------
\* C23: in the generic table a put of a key equal to a stored key adds no
\* second entry: no two slots hold equal keys, and the member count is the
\* number of distinct keys put.
GhashSlots == 0..(gh.size - 1)

C23_GhashOneEntryPerKey ==
  (tbl = "ghash" /\ ~ht_hung) =>
    /\ \A i, j \in GhashSlots :
         (i # j /\ gh.keys[i] # NULL /\ gh.keys[j] # NULL) =>
           ~cmp_fn(gh.keys[i], gh.keys[j])
    /\ gh.members = Cardinality({gcontent(k) : k \in ht_ref.keys})

\* ------------------------------------------------------------------------
\* C24: after any sequence of hash_put calls with non-NULL values, hash_get
\* returns the value of the latest put of the key, or NULL for a key never
\* put, and hash_put returned true exactly when the key had been put before.
C24_PointerMapRefinesMap ==
  (tbl = "hash" /\ ~ht_ref.dels) =>
    /\ ~ht_hung
    /\ \A k \in Keys : hash_get(h, k) = ht_ref.map[k]
    /\ ht_puts > 0 => (ht_ref.ret <=> ht_ref.had)
    /\ h.members = Cardinality(ht_ref.keys)

\* the table was rebuilt, holds two keys with different values, and the
\* latest put replaced the value of a key it found
C24_Witness ==
  /\ tbl = "hash" /\ ~ht_ref.dels /\ h.size >= 4
  /\ ht_ref.ret /\ ht_ref.had
  /\ \E k1, k2 \in Keys :
       /\ k1 # k2 /\ hash_get(h, k1) # NULL /\ hash_get(h, k2) # NULL
       /\ hash_get(h, k1) # hash_get(h, k2)
       /\ hash_slot(h.size, k1) = hash_slot(h.size, k2)

\* ------------------------------------------------------------------------
\* C25: the lookup cache of the u64 map does not show: after any sequence of
\* ihash_put and ihash_get calls, ihash_get returns the value of the latest
\* put of the key, or NULL.
C25_IhashCacheTransparent ==
  tbl = "ihash" =>
    /\ ~ht_hung
    /\ \A k \in IKeys : ihash_get(ih, k).ret = ht_ref.map[k]

\* a rebuilt table whose cache holds the miss of a get of an absent key,
\* beside a key whose value was put twice
C25_Witness ==
  /\ tbl = "ihash" /\ ih.size >= 4 /\ ih.members > 0
  /\ ih.cacheval = NULL /\ ih.cachekey \in IKeys
  /\ ih.cachekey \notin ht_ref.keys
  /\ ht_ref.had

\* ------------------------------------------------------------------------
\* C28: every probe loop of the pointer map ends: the size is a power of
\* two, the probe sequence slot, slot+1, slot+3, .. reaches every slot, and
\* some slot is empty whenever hash_get, hash_put or hash_delete is called.
HashSlots == 0..(h.size - 1)

\* a table of the size of h that is full but for slot e
FullBut(e) ==
  [h EXCEPT !.keys = [i \in HashSlots |-> IF i = e THEN NULL ELSE 1]]

C28_ProbeLoopsTerminate ==
  tbl = "hash" =>
    /\ ~ht_hung
    /\ IsPow2(h.size)
    /\ \E s \in HashSlots : h.keys[s] = NULL
    /\ \A start, e \in HashSlots : hash_probe(FullBut(e), 2, start, 1) = e
    /\ \A k \in Keys : hash_probe(h, k, hash_slot(h.size, k), 1) # -1

\* a table at its highest load where the probe of an absent key passes two
\* occupied slots before it stops
C28_Witness ==
  /\ tbl = "hash" /\ h.size >= 4 /\ h.members = h.size \div 2
  /\ \E k \in Keys :
       LET s0 == hash_slot(h.size, k)
           s1 == (s0 + 1) % h.size
       IN  /\ k \notin ht_ref.keys /\ hash_get(h, k) = NULL
           /\ h.keys[s0] # NULL /\ h.keys[s1] # NULL

\* ------------------------------------------------------------------------
\* C29: the concurrent map never links two nodes with the same key, in any
\* interleaving of chash_put calls; a writer that loses the race for a new
\* key stores its value in the node the winner linked.
C29_OneNodePerKey ==
  /\ \A i, j \in 1..Len(ch_nodes) : i # j => ch_nodes[i].key # ch_nodes[j].key
  /\ ChashQuiescent =>
       \A t \in Threads :
         (ch_calls[t] > 0 /\ ch_ret[t]) =>
           \E i \in 1..Len(ch_nodes) : ch_nodes[i].key = ch_loc[t].key

\* both threads put the same new key once, one lost the compare-and-swap,
\* and the map holds the one node
C29_Witness ==
  /\ ChashQuiescent /\ ch_casfail
  /\ \A t \in Threads : ch_calls[t] = 1
  /\ \E t1, t2 \in Threads :
       /\ t1 # t2 /\ ch_loc[t1].key = ch_loc[t2].key
       /\ ~ch_ret[t1] /\ ch_ret[t2]
       /\ Len(ch_nodes) = 1
       /\ ch_nodes[1].value = ch_loc[t2].value

\* ------------------------------------------------------------------------
\* a string without its leading and trailing white space
RECURSIVE Trim(_)
Trim(s) ==
  IF s = <<>> THEN s
  ELSE IF isspace(s[1]) THEN Trim(Tail(s))
  ELSE IF isspace(s[Len(s)]) THEN Trim(SubSeq(s, 1, Len(s) - 1))
  ELSE s

\* an optional minus sign, then digits with single underscores between them
IsDecimal(s) ==
  LET body == IF s # <<>> /\ s[1] = "-" THEN Tail(s) ELSE s
  IN  /\ body # <<>>
      /\ isdigit(body[1]) /\ isdigit(body[Len(body)])
      /\ \A i \in 1..Len(body) : isdigit(body[i]) \/ body[i] = "_"
      /\ \A i \in 1..(Len(body) - 1) : ~(body[i] = "_" /\ body[i + 1] = "_")

\* the decimal value of such a string: the sum of its digits times their
\* powers of ten
DecimalValue(s) ==
  LET sign == IF s[1] = "-" THEN -1 ELSE 1
      digits == SelectSeq(s, isdigit)
      n == Len(digits)
      partial[i \in 0..n] ==
        IF i = 0 THEN 0
        ELSE partial[i - 1] + sign * digit_value(digits[i]) * pow10(n - i)
  IN  partial[n]

\* a number and nothing else
IsUnitless(s) ==
  /\ s # <<>>
  /\ \A i \in 1..Len(s) : isdigit(s[i]) \/ s[i] = "."

\* C21: parse_value ignores leading and trailing white space for scalar
\* types; for an integer type it accepts an optional minus sign and
\* underscores between digits and yields the decimal value; for an
\* enumeration type or a subtype of one it yields the position of the named
\* literal in the base type without a bounds check; for a physical type a
\* value without a unit is rejected.
C21_ParseValueScalars ==
  pv.done =>
    LET s == Trim(pv.str) IN
    /\ pv.res = parse_value(pv.type, s)
    /\ (pv.type = "integer" /\ IsDecimal(s)) =>
         pv.res = [ok |-> TRUE, value |-> DecimalValue(s)]
    /\ value_base_type(pv.type) = "enum" =>
         \A i \in 1..Len(enum_literals) :
           s = <<enum_literals[i]>> => pv.res = [ok |-> TRUE, value |-> i - 1]
    /\ (pv.type = "time" /\ IsUnitless(s)) => ~pv.res.ok

\* the subtype constrained to A .. B was given " C  " and the call returned
\* the position of C in the base type
C21_Witness ==
  /\ pv.done
  /\ pv.type = "subtype"
  /\ pv.str = <<" ", "C", " ", " ">>
  /\ pv.res = [ok |-> TRUE, value |-> 2]

\* ------------------------------------------------------------------------
\* the frames as their handlers should see them
SentFrames ==
  [i \in 1..Len(ws_client.frames) |->
     [opcode |-> ws_client.frames[i].opcode, payload |-> ws_client.frames[i].payload]]

\* C22: when two or more complete WebSocket frames arrive in one read,
\* ws_poll dispatches each frame to its handler exactly once, in arrival
\* order, with an unmodified payload of the announced length; handling a text
\* frame does not alter the bytes of the frame that follows it in the receive
\* buffer.
C22_FramesOfOneReadDispatched ==
  (Len(ws_client.frames) >= 2 /\ ws_client.reads = 1 /\ ws_client.wire = <<>>)
    => ws.log = SentFrames

\* ------------------------------------------------------------------------
\* C26: when a new CXXRTL connection replaces an existing one, nothing
\* belonging to the old connection reaches the new one: bytes still queued
\* for transmission to the old client are not sent on the new socket, and a
\* partial message received from the old client is not prepended to the new
\* client's input.
C26_NothingOfOldConnectionReachesNew ==
  ~cxxrtl.sent_old /\ ~cxxrtl.rx_old

\* ------------------------------------------------------------------------
ShutdownRequested ==
  /\ srv.pc = "loop"
  /\ IF srv.kind = "SERVER_HTTP" THEN ws.shutdown ELSE cxxrtl.shutdown

ServerFaulted == ws.crashed \/ cxxrtl.crashed \/ srv.crashed

\* C27: once a client has requested shutdown (a C2S_SHUTDOWN binary frame
\* over WebSocket, or nvc.quit_simulation over CXXRTL), the server closes its
\* listening socket and the start_server event loop eventually terminates,
\* without requiring any further action by the client, provided queued
\* output can be written.
C27_ShutdownTerminatesLoop ==
  ShutdownRequested ~> ((srv.pc = "done" /\ srv.sock = -1) \/ ServerFaulted)

\* C30: the start_server event loop terminates only after a shutdown request
\* has been processed, and whenever it terminates the listening socket is
\* closed and the protocol holds no open client connection, so that the
\* assertions in start_server, http_server_free and cxxrtl_server_free hold.
C30_LoopExitsClean ==
  srv.pc = "done" =>
    /\ IF srv.kind = "SERVER_HTTP" THEN ws.shutdown ELSE cxxrtl.shutdown
    /\ srv.sock = -1
    /\ ws.sock = -1 /\ cxxrtl.sock = -1
    /\ srv.asserts

\* an HTTP server started with an init command has returned from
\* start_server after a client asked it to shut down
C30_Witness ==
  /\ srv.pc = "done" /\ srv.kind = "SERVER_HTTP" /\ srv.init_cmd
  /\ ws.shutdown /\ srv.asserts

C32_MembersCountsLiveKeys ==
  (tbl = "hash" /\ ~ht_hung) =>
    /\ hash_members(h) = Cardinality({k \in Keys : hash_get(h, k) # NULL})
    /\ hash_members(h) = Len(hash_iter(h, 0))
    /\ ht_puts > 0 => (ht_ref.ret <=> ht_ref.live)

\* ------------------------------------------------------------------------
\* C33: the WebSocket transmit buffer is a FIFO byte queue.  For every
\* interleaving of ws_send and ws_flush calls in which send() takes any part
\* of what it is given, the bytes handed to send() and taken by it, followed
\* by the bytes still between tx_rptr and tx_wptr, are the bytes of the
\* queued frames in order, each once, and 0 <= tx_rptr <= tx_wptr <= tx_size
\* in every state (no byte is written beyond tx_size).
C33_TxBufferIsFifo ==
  /\ 0 <= wtx.tx_rptr /\ wtx.tx_rptr <= wtx.tx_wptr /\ wtx.tx_wptr <= wtx.tx_size
  /\ ~wtx.overrun
  /\ wtx.taken \o SubSeq(wtx.tx_buf, wtx.tx_rptr + 1, wtx.tx_wptr) = wtx.queued

\* after a partial send the buffer was grown by a later ws_send, a long
\* masked frame among them, and a second flush has emptied it
C33_Witness ==
  /\ wtx.mask /\ wtx.sends = MaxSends /\ wtx.flushes >= 2
  /\ wtx.tx_size > TX_MIN_SIZE
  /\ wtx.tx_rptr = 0 /\ wtx.tx_wptr = 0
  /\ wtx.taken = wtx.queued
  /\ Len(wtx.queued) > 2 * LongSize

\* ------------------------------------------------------------------------
\* C34: WebSocket framing round-trips.  For every opcode and payload, with
\* or without masking and for each of the three length encodings, the bytes
\* ws_send produces are decoded by ws_poll into one frame with the same
\* opcode and the same payload, also when the frame arrives split over
\* several reads: nothing is dispatched before the last byte has arrived, and
\* then the one frame is, and the receive buffer is empty again.
C34_FramingRoundTrips ==
  (Len(ws_client.frames) = 1 /\ ws_client.reads > 0) =>
     IF ws_client.wire # <<>>
     THEN ws.log = <<>> /\ ~ws.crashed /\ ~ws.closing
     ELSE /\ ws.log = SentFrames
          /\ ~ws.crashed
          /\ ws.rx_rptr = 0 /\ ws.rx_wptr = 0

\* a masked text frame with the two byte extended length has arrived in
\* three reads, the first two ending inside its header
C34_Witness ==
  /\ Len(ws_client.frames) = 1 /\ ws_client.wire = <<>> /\ ws_client.reads = 3
  /\ ws_client.frames[1].mask
  /\ ws_client.frames[1].opcode = WS_OPCODE_TEXT_FRAME
  /\ Len(ws_client.frames[1].payload) = 126
  /\ ws.log = SentFrames

\* ------------------------------------------------------------------------
\* C35: the CXXRTL server never uses a closed socket.  In every reachable
\* state of start_server pending transmit data (tx_wptr != tx_rptr) implies
\* sock != -1, so that cxxrtl_fill_fd_set never passes -1 to FD_SET and the
\* program does not fault there, also after the peer has closed the
\* connection while a response was still queued.
C35_NoClosedSocketUsed ==
  srv.kind = "SERVER_CXXRTL" =>
    /\ cxxrtl.tx # <<>> => cxxrtl.sock # -1
    /\ ~srv.crashed

\* C36: every value line a watch callback wrote to the current dump has the
\* time stamp line of its time before it in the current dump, the first
\* callback after a vcd_restart included.
C36_ValueHasStamp ==
  LET dump == VcdDump
  IN  \A i \in 1..Len(dump) : VcdCbValue(dump[i]) =>
        \E j \in 1..(i - 1) : dump[j].kind = "time" /\ dump[j].at = dump[i].at

\* C37: type_eq is transitive: for all types a, b and c, when type_eq(a, b)
\* and type_eq(b, c) return true then type_eq(a, c) returns true.
C37_TypeEqTransitive ==
  \A a, b, c \in TypeIds :
    (type_eq(a, b) = "true" /\ type_eq(b, c) = "true") => type_eq(a, c) = "true"

\* int key of vcd_key_fmt
INT_MAX == 2147483647

\* keys around every change of the number of digits vcd_key_fmt writes, keys
\* with zero digits, and the largest key
ProbeKeys ==
  (0..3) \cup (91..95) \cup {185, 186, 187} \cup (8647..8651)
    \cup {8742, 8743, 804356, 804357, 804358, 74805200, 74805201, 74805202,
          INT_MAX - 1, INT_MAX}

\* C38: vcd_restart gives the keys 0, 1, ... in order to exactly the signals
\* it writes a $var line for, the identifiers of the $var lines are pairwise
\* distinct and every value line carries the identifier of a declared
\* signal; vcd_key_fmt maps distinct keys to distinct strings, each non-empty
\* and of characters with codes 33..125.
C38_KeysUnique ==
  /\ vcd_runs > 0 =>
       LET dump  == VcdDump
           decls == {i \in 1..Len(dump) : dump[i].kind = "var"}
           keyed == {d \in Sigs : vcd_key[d] # -1}
       IN  /\ keyed = {d \in Sigs : vcd_fmt[d]}
           /\ Cardinality(decls) = Cardinality(keyed)
           /\ {vcd_key[d] : d \in keyed} = 0..(Cardinality(keyed) - 1)
           /\ \A d1, d2 \in keyed : d1 < d2 => vcd_key[d1] < vcd_key[d2]
           /\ {dump[i].id : i \in decls} = {vcd_key_fmt(vcd_key[d]) : d \in keyed}
           /\ \A i, j \in decls : dump[i].id = dump[j].id => i = j
           /\ \A i \in 1..Len(dump) : dump[i].kind = "value" =>
                \E j \in decls : j < i /\ dump[j].id = dump[i].id
  /\ LET str == [k \in ProbeKeys |-> vcd_key_fmt(k)]
     IN  /\ \A k \in ProbeKeys :
               /\ Len(str[k]) >= 1
               /\ \A i \in 1..Len(str[k]) : str[k][i] >= 33 /\ str[k][i] <= 125
         /\ \A k1, k2 \in ProbeKeys : k1 # k2 => str[k1] # str[k2]

\* C38 witness: the second vcd_restart has declared both signals again with
\* the keys 0 and 1, and a callback has written a value of the second
C38_Witness ==
  /\ vcd_runs = 2 /\ vcd_key = [d \in Sigs |-> d - 1]
  /\ \E i \in 1..Len(VcdDump) :
       VcdCbValue(VcdDump[i]) /\ VcdDump[i].id = vcd_key_fmt(1)

\* the entries of the frame cache, in list order
LruEntries == {dbg.lru_cache[i] : i \in 1..Len(dbg.lru_cache)}

\* at most DI_LRU_SIZE entries, each once, no two with the same pc
LruBounded ==
  /\ Len(dbg.lru_cache) <= DI_LRU_SIZE
  /\ \A i, j \in 1..Len(dbg.lru_cache) :
       dbg.frame_pc[dbg.lru_cache[i]] = dbg.frame_pc[dbg.lru_cache[j]] => i = j

\* next and prev are inverse to each other on the entries of the list
LruLinksConsistent ==
  \A n \in LruEntries :
    /\ dbg.next[n] # NULL => dbg.prev[dbg.next[n]] = n
    /\ dbg.prev[n] # NULL => dbg.next[dbg.prev[n]] = n

\* a step that changes the list is a di_lru_get of the pc now at its head:
\* a hit has moved that entry to the front, a miss below capacity has put a
\* new entry there, a miss at capacity the entry that was last; the others
\* keep their order
LruStep ==
  LET c    == dbg.lru_cache
      c2   == dbg'.lru_cache
      pc   == dbg'.frame_pc[c2[1]]
      at   == {i \in 1..Len(c) : dbg.frame_pc[c[i]] = pc}
  IN  c2 # c =>
        IF at # {}
          THEN \E i \in at :
                 /\ c2 = <<c[i]>> \o SubSeq(c, 1, i - 1) \o SubSeq(c, i + 1, Len(c))
                 /\ dbg'.frame_pc = dbg.frame_pc
        ELSE IF Len(c) < DI_LRU_SIZE
          THEN /\ c2 = <<Len(dbg.frame_pc) + 1>> \o c
               /\ dbg'.frame_pc = Append(dbg.frame_pc, pc)
        ELSE /\ c2 = <<c[Len(c)]>> \o SubSeq(c, 1, Len(c) - 1)
             /\ dbg'.frame_pc = [dbg.frame_pc EXCEPT ![c[Len(c)]] = pc]

\* C39: after any sequence of di_lru_get calls the cache holds at most
\* DI_LRU_SIZE entries and no two with the same pc, a hit moves its entry to
\* the front, a miss at capacity reuses the least recently used entry, and
\* the next and prev links are mutually consistent.
C39_LruDiscipline ==
  /\ [](LruBounded /\ LruLinksConsistent)
  /\ [][LruStep]_vars

\* C40: filter_color writes no byte at or beyond offset 2 * strlen(str) of
\* the buffer it allocated, the terminating NUL included, whatever the
\* string and the colour settings.
C40_WritesInsideBuffer ==
  fc.done => /\ fc.res.maxlen = 2 * Len(fc.str)
             /\ Len(fc.res.copy) <= fc.res.maxlen

====
